---- MODULE Spec2Model ----
(***************************************************************************)
(* State-machine model of the SiYi protocol library                        *)
(* (src/shared/py-protocol/src): the message model, the client engine      *)
(* ProtocolClient and the server engine ProtocolServer.                    *)
(*                                                                         *)
(* The two engines run in different processes and meet only on the wire,   *)
(* so a behaviour follows ONE engine (variable engine) against an          *)
(* arbitrary peer: the peer may send any message at any time and may close *)
(* the transport at any time.  Fields that both classes declare            *)
(* (_running, _request_handler, _event_handler, _pending_requests) are one *)
(* variable.  Every asyncio task is a small record holding its position;   *)
(* an action is the code a task runs between two suspension points         *)
(* (await).  Time is discrete: Tick advances every running timer by one    *)
(* unit and is blocked while an expired timer has not fired.               *)
(***************************************************************************)
EXTENDS Integers, Sequences, FiniteSets, TLC

\* ---------------------------------------------------------------- bounds
MaxCalls == 2        \* send_request calls that get registered in one run
MaxTransports == 2   \* transports the client opens / the server accepts
MaxFairWork == 2     \* the same budget in the runs checked under fairness
MaxWork == 3         \* calls registered plus transports opened in one run; the
                     \* server's send_request and send_event are called below it
MaxCallsBeforeBroadcast == 0   \* send_request calls made before a broadcast is issued
MaxEventWork == 2    \* the budget of MaxWork in the runs with an event handler
\* The exceptions handlers raise in a run of RaisingSpec.
MaxCaught == 1

MaxConfigWork == 2   \* the budget of MaxWork in the runs with any heartbeat configuration

\* ------------------------------------------------------- program constants
request_timeout == 2      \* engine-wide request timeout, in ticks
reconnect_interval == 1   \* client reconnect delay, in ticks
heartbeat_command == "heartbeat"
DefaultHeartbeatInterval == "30.0"   \* heartbeat_interval: Optional[float] = 30.0

None == "None"
NoTimeout == -1           \* the timeout argument left at None
NoConnection == 0         \* _connection is None
NoMessage == [type |-> "none"]

Timeouts == {NoTimeout, 0, 1}
HeartbeatIntervals == {None, DefaultHeartbeatInterval}
BroadcastTimeouts == {1}        \* the timeout= arguments given to broadcast_request
Commands == {heartbeat_command, "echo"}
CallIds == 1 .. MaxCalls
TransportIds == 1 .. MaxTransports

\* ----------------------------------------------------------- message model
\* str(uuid): the canonical text of the n-th UUID.
str_uuid(n) == "uuid-" \o ToString(n)

\* Another spelling (upper case, no hyphens, braces) that uuid.UUID() accepts
\* for the n-th UUID.
alt_uuid(n) == "UUID-" \o ToString(n)

UuidNumbers == 1 .. MaxCalls + 1

UuidTexts == { str_uuid(n) : n \in UuidNumbers }

\* Strings that are no spelling of a UUID.
PlainTexts == {"evt-789"}

\* IdType = Union[UUID, str]: an identifier is a UUID or a string; v is its
\* string form.
Identifier == [kind : {"uuid", "str"}, v : UuidTexts]

\* uuid.uuid4(): the n-th identifier generated is different from all others.
uuid4(n) == [kind |-> "uuid", v |-> str_uuid(n)]

\* The identifier a default_factory=uuid.uuid4 field gets when the input has
\* no id: one that no send_request of the run has generated.
DefaultId == uuid4(MaxCalls + 1)

\* Python values of the fields typed Any / Dict: None, a str, or a dict.
Dicts == {"{}"}

\* A model that failed validation (pydantic.ValidationError is raised).
ValidationError == [type |-> "ValidationError"]

Request(id, command, params) ==
    [type |-> "request", id |-> id, command |-> command, params |-> params]

\* Response.validate_response (model_validator, mode="after"): status ok
\* excludes error, status error excludes data.
validate_response(self) ==
    IF \/ self.status = "ok" /\ self.error # None
       \/ self.status = "error" /\ self.data # None
    THEN ValidationError
    ELSE self

\* A Response model that skips validate_response.
Response_unvalidated(id, status, data, error) ==
    [type |-> "response", id |-> id, status |-> status, data |-> data, error |-> error]

\* Response(...): status is Literal["ok", "error"]; the validator runs after
\* the fields are set.
Response(id, status, data, error) ==
    IF status \notin {"ok", "error"} THEN ValidationError
    ELSE validate_response(
            [type |-> "response", id |-> id, status |-> status, data |-> data,
             error |-> error])

Event(id, name, data) ==
    [type |-> "event", id |-> id, name |-> name, data |-> data]

Response_success(request_id, data) == Response(request_id, "ok", data, None)

Response_fail(request_id, error_message) == Response(request_id, "error", None, error_message)

\* ------------------------------------------------------------ wire format
\* JSON values: null, a string, a number, an object.
JNull == [t |-> "null", s |-> ""]

JString(text) == [t |-> "string", s |-> text]

JNumber == [t |-> "number", s |-> "1"]

JObject(dict) == [t |-> "object", s |-> dict]

\* A text frame whose content is a JSON object with the given members.
JsonText(fields) == [json |-> "object", fields |-> fields]

\* A text frame that is not valid JSON.
NotJson == [json |-> "invalid", fields |-> [type |-> JNull]]

\* Serialization of a field value: None -> null, dict -> object, str -> string.
dump_value(x) ==
    IF x = None THEN JNull ELSE IF x \in Dicts THEN JObject(x) ELSE JString(x)

\* model_dump_json(): every field is written; a UUID id is written as
\* str(uuid), a str id as itself.
model_dump_json(m) ==
    CASE m.type = "request" ->
            JsonText([type |-> JString("request"), id |-> JString(m.id.v),
                      command |-> JString(m.command), params |-> dump_value(m.params)])
      [] m.type = "response" ->
            JsonText([type |-> JString("response"), id |-> JString(m.id.v),
                      status |-> JString(m.status), data |-> dump_value(m.data),
                      error |-> dump_value(m.error)])
      [] m.type = "event" ->
            JsonText([type |-> JString("event"), id |-> JString(m.id.v),
                      name |-> JString(m.name), data |-> dump_value(m.data)])

\* The text is a spelling of a UUID.
IsUuidText(text) == \E n \in UuidNumbers : text \in {str_uuid(n), alt_uuid(n)}

\* uuid.UUID(text)
UUID(text) == uuid4(CHOOSE n \in UuidNumbers : text \in {str_uuid(n), alt_uuid(n)})

\* Validation of a JSON value against IdType = Union[UUID, str]: the members
\* are tried from the left, and a JSON string that spells a UUID is a match
\* of UUID; any other string is a str; no other JSON value is accepted.
IdType(j) ==
    IF j.t # "string" THEN ValidationError
    ELSE IF IsUuidText(j.s) THEN UUID(j.s)
    ELSE [kind |-> "str", v |-> j.s]

\* Validation of a JSON value against Optional[Any].
load_any(j) == IF j.t = "null" THEN None ELSE j.s

Absent(f, name) == name \notin DOMAIN f

\* The value of an optional member: null when the member is absent.
Member(f, name) == IF Absent(f, name) THEN JNull ELSE f[name]

\* Validation of the members against Request: id (default uuid4()),
\* command: str (required), params: Optional[Dict].
validate_Request(f) ==
    LET id == IF Absent(f, "id") THEN DefaultId ELSE IdType(f.id)
    IN  IF \/ id = ValidationError
           \/ Absent(f, "command")
           \/ Member(f, "command").t # "string"
           \/ Member(f, "params").t \notin {"null", "object"}
        THEN ValidationError
        ELSE Request(id, f.command.s, load_any(Member(f, "params")))

\* Validation of the members against Response: id (required), status
\* (required, "ok" or "error"), data: Optional[Any], error: Optional[str].
validate_Response(f) ==
    IF \/ Absent(f, "id")
       \/ IdType(Member(f, "id")) = ValidationError
       \/ Absent(f, "status")
       \/ Member(f, "status").t # "string"
       \/ Member(f, "error").t \notin {"null", "string"}
    THEN ValidationError
    ELSE Response(IdType(f.id), f.status.s, load_any(Member(f, "data")),
                  load_any(Member(f, "error")))

\* Validation of the members against Event: id (default uuid4()), name: str
\* (required), data: Optional[Dict].
validate_Event(f) ==
    LET id == IF Absent(f, "id") THEN DefaultId ELSE IdType(f.id)
    IN  IF \/ id = ValidationError
           \/ Absent(f, "name")
           \/ Member(f, "name").t # "string"
           \/ Member(f, "data").t \notin {"null", "object"}
        THEN ValidationError
        ELSE Event(id, f.name.s, load_any(Member(f, "data")))

\* A decoder that takes the variant from the members present.
Message_by_shape(f) ==
    IF ~Absent(f, "command") THEN validate_Request(f)
    ELSE IF ~Absent(f, "status") THEN validate_Response(f)
    ELSE IF ~Absent(f, "name") THEN validate_Event(f)
    ELSE ValidationError

\* Message = Annotated[Union[Request, Response, Event],
\* Field(discriminator="type")]: the member `type` alone selects the variant.
Message(f) ==
    IF Absent(f, "type") THEN ValidationError
    ELSE CASE f.type = JString("request") -> validate_Request(f)
           [] f.type = JString("response") -> validate_Response(f)
           [] f.type = JString("event") -> validate_Event(f)
           [] OTHER -> ValidationError

\* Frames the peer can put on the wire besides protocol messages: Garbage is a
\* text payload that is not a protocol message, Undecodable a binary frame
\* that is not UTF-8.
Garbage == JsonText([type |-> JString("garbage")])

Undecodable == [json |-> "undecodable", fields |-> [type |-> JNull]]

\* The messages the peer encodes and puts on the wire.
PeerResponses ==
    { Response_success(i, "d") : i \in {j \in Identifier : j.kind = "uuid"} } \cup
    { Response_fail(i, "e") : i \in {j \in Identifier : j.kind = "str"} }

PeerRequests == { Request([kind |-> "str", v |-> str_uuid(1)], c, None) : c \in Commands }

PeerEvents == { Event([kind |-> "str", v |-> str_uuid(1)], "ev", None) }

PeerMessages == PeerResponses \cup PeerRequests \cup PeerEvents

PeerFrames == { model_dump_json(m) : m \in PeerMessages } \cup {Garbage, Undecodable}

\* parse_message: TypeAdapter(Message).validate_json(raw_data); the message,
\* or NoMessage when validation raises.
parse_message(raw) ==
    IF raw.json # "object" THEN NoMessage
    ELSE LET message == Message(raw.fields)
         IN  IF message = ValidationError THEN NoMessage ELSE message

\* parse_message applied to every frame the peer can put on the wire.
Decoded == [raw \in PeerFrames |-> parse_message(raw)]

\* The message the engine decodes from the frame the peer encoded m into.
Received(m) == parse_message(model_dump_json(m))

\* _normalize_id: str(uuid) for a UUID, the string itself otherwise.
normalize_id(id_value) == id_value.v

\* ------------------------------------------------------------------ state
VARIABLES
    engine,            \* "client" or "server": the engine this behaviour follows
    running,           \* _running
    request_handler,   \* _request_handler is set
    event_handler,     \* _event_handler is set
    heartbeat_interval, \* server: heartbeat_interval (None disables the heartbeat)
    pending_requests,  \* _pending_requests: normalized id -> future (its call)
    calls,             \* the send_request coroutines and their futures
    transport,         \* the websocket connections: "unused", "open", "dropped", "closed"
    connected,         \* client: _connected (asyncio.Event)
    connection,        \* client: _connection
    receive_task,      \* client: _receive_task
    connect_task,      \* client: the task running connect()
    disconnect_task,   \* client: the task running disconnect()
    serving,           \* server: start() has entered serve()
    connections,       \* server: _connections
    conn_task,         \* server: the task running _handle_connection, per connection
    stop_task,         \* server: the task running stop()
    heartbeat_tasks,   \* server: the tasks running _heartbeat_loop and _heartbeat_tasks
    broadcast_task,    \* server: the task running broadcast_request()
    wire,              \* the frames the last step handed to a transport
    returned,          \* the mapping broadcast_request returned on the last step
    raised,            \* the exception the last step raised to the caller of the public API
    codec              \* a message on its way through the constructors and the wire format

vars == <<engine, running, request_handler, event_handler, heartbeat_interval,
          pending_requests, calls, transport,
          connected, connection, receive_task, connect_task, disconnect_task,
          serving, connections, conn_task, stop_task, heartbeat_tasks, broadcast_task,
          wire, returned, raised, codec>>

\* The state of the engines.
engineVars == <<engine, running, request_handler, event_handler, heartbeat_interval,
                pending_requests, calls, transport,
                connected, connection, receive_task, connect_task, disconnect_task,
                serving, connections, conn_task, stop_task, heartbeat_tasks, broadcast_task,
                wire, returned, raised>>

clientVars == <<connected, connection, receive_task, connect_task, disconnect_task>>

serverVars == <<serving, connections, conn_task, stop_task, heartbeat_tasks, broadcast_task>>

NoId == [kind |-> "none", v |-> ""]
NoCall == 0
EmptyTable == [k \in {} |-> NoCall]

UnusedCall ==
    [pc |-> "unused", id |-> NoId, conn |-> NoConnection, timeout |-> NoTimeout,
     elapsed |-> 0, future |-> "none", result |-> NoMessage, outcome |-> "none",
     by |-> "none"]

NoReceiveTask == [state |-> "none", conn |-> NoConnection, req |-> NoMessage, caught |-> {}]

NoConnTask ==
    [state |-> "none", req |-> NoMessage, on_connect |-> 0, on_disconnect |-> 0, caught |-> {}]

\* No heartbeat task: listed tells whether _heartbeat_tasks has an entry for
\* the connection.
NoHeartbeat == [state |-> "none", call |-> NoCall, listed |-> FALSE]

NoResults == [k \in {} |-> NoMessage]

\* No broadcast_request returned on this step.
NoReturn == [pc |-> "none", results |-> NoResults]

NoBroadcast == [pc |-> "idle", targets |-> {}, slot |-> EmptyTable, results |-> NoResults]

\* No message is on its way through the codec.
NoCodec == [pc |-> "none", m |-> NoMessage, text |-> NotJson, parsed |-> NoMessage]

EngineInit ==
    /\ engine \in {"client", "server"}
    /\ running = FALSE
    /\ request_handler = FALSE
    /\ event_handler = FALSE
    /\ heartbeat_interval \in HeartbeatIntervals
    /\ pending_requests = EmptyTable
    /\ calls = [c \in CallIds |-> UnusedCall]
    /\ transport = [k \in TransportIds |-> "unused"]
    /\ connected = FALSE
    /\ connection = NoConnection
    /\ receive_task = NoReceiveTask
    /\ connect_task = [pc |-> "none", auto |-> TRUE, timer |-> 0]
    /\ disconnect_task = [pc |-> "idle"]
    /\ serving = FALSE
    /\ connections = {}
    /\ conn_task = [k \in TransportIds |-> NoConnTask]
    /\ stop_task = [pc |-> "idle", todo |-> {}]
    /\ heartbeat_tasks = [k \in TransportIds |-> NoHeartbeat]
    /\ broadcast_task = NoBroadcast
    /\ wire = <<>>
    /\ returned = NoReturn
    /\ raised = None

Init == EngineInit /\ codec = NoCodec /\ heartbeat_interval = DefaultHeartbeatInterval

\* The engines with any configuration of the heartbeat.
ConfigInit ==
    /\ EngineInit
    /\ codec = NoCodec
    /\ engine = "client" => heartbeat_interval = DefaultHeartbeatInterval

\* ------------------------------------------------------ correlation table
\* self._pending_requests[request_id] = future
Register(table, id, c) ==
    [k \in DOMAIN table \cup {id} |-> IF k = id THEN c ELSE table[k]]

\* self._pending_requests.pop(request_id, None)
Pop(table, id) == [k \in DOMAIN table \ {id} |-> table[k]]

\* A lookup that ignores the id and returns any pending future.
LookupAny(table, id) ==
    IF DOMAIN table = {} THEN NoCall ELSE table[CHOOSE k \in DOMAIN table : TRUE]

\* self._pending_requests.get(response_id)
Lookup(table, id) == IF id \in DOMAIN table THEN table[id] ELSE NoCall

\* timeout or self.request_timeout: a timeout of 0 counts as absent.
EffectiveTimeoutTruthy(timeout) == IF timeout > 0 THEN timeout ELSE request_timeout

\* timeout if timeout is not None else self.request_timeout
EffectiveTimeout(timeout) == IF timeout # NoTimeout THEN timeout ELSE request_timeout

\* The slot of the next send_request that gets past the connection check.
NextCall == Cardinality({c \in CallIds : calls[c].pc # "unused"}) + 1

\* Calls registered plus transports opened so far.
Work == (NextCall - 1) + Cardinality({k \in TransportIds : transport[k] # "unused"})

\* _send_message(message) with k the connection it writes to: the frame
\* reaches the peer iff there is a connection and its transport is open;
\* otherwise the send raises (ConnectionError without a connection,
\* ConnectionClosed on a transport that is not open).
Frame(k, message) ==
    [conn |-> k, msg |-> message,
     ok |-> IF k = NoConnection THEN FALSE ELSE transport[k] = "open"]

Delivered(frames) == \A i \in DOMAIN frames : frames[i].ok

\* ------------------------------------------------ send_request (both engines)
\* A send_request call that has returned or raised: its request id, how it
\* ended and the Response it returned.
Finished(id, outcome, result) ==
    [UnusedCall EXCEPT !.pc = "done", !.id = id, !.outcome = outcome, !.result = result]

\* The record of call `call` after wait_for has ended with `outcome`.
Ended(call, outcome, result) ==
    [Finished(call.id, outcome, result) EXCEPT !.by = call.by]

\* send_request from the creation of the Request to the first suspension of
\* wait_for: the slot is registered, the Request is written to transport k;
\* when the write raises, the finally clause removes the slot again.  `by`
\* is the coroutine that awaits the call: a task of the application ("api"),
\* the handler the receive loop of connection k is awaiting ("handler") or
\* the heartbeat loop of connection k ("heartbeat").
SendAs(c, k, timeout, command, id, by) ==
    LET request == Request(id, command, None)
        request_id == normalize_id(request.id)
        frame == Frame(k, request)
        registered == Register(pending_requests, request_id, c)
    IN  /\ wire' = <<frame>>
        /\ IF frame.ok
           THEN /\ calls' = [calls EXCEPT ![c] =
                      [pc |-> "waiting", id |-> request.id, conn |-> k,
                       timeout |-> timeout, elapsed |-> 0, future |-> "pending",
                       result |-> NoMessage, outcome |-> "none", by |-> by]]
                /\ pending_requests' = registered
           ELSE /\ calls' = [calls EXCEPT ![c] =
                      [Finished(request.id, "transport_error", NoMessage) EXCEPT !.by = by]]
                /\ pending_requests' = Pop(registered, request_id)

\* send_request awaited by a task of the application.
SendWithId(c, k, timeout, command, id) == SendAs(c, k, timeout, command, id, "api")

\* send_request whose Request gets the c-th identifier uuid4() generates.
RegisterAndWrite(c, k, timeout, command) == SendWithId(c, k, timeout, command, uuid4(c))

\* A write to transport k succeeds.
Writable(k) == Frame(k, NoMessage).ok

\* send_request called through the public API: a failed write is raised to
\* the caller.
StartCall(c, k, timeout, command) ==
    /\ RegisterAndWrite(c, k, timeout, command)
    /\ raised' = IF Writable(k) THEN None ELSE "ConnectionClosed"
    /\ returned' = NoReturn

\* send_request called through the public API when uuid4() returns the
\* identifier of the earlier call d once more.
StartDuplicateCall(c, k, timeout, command, d) ==
    /\ SendWithId(c, k, timeout, command, calls[d].id)
    /\ raised' = IF Writable(k) THEN None ELSE "ConnectionClosed"
    /\ returned' = NoReturn

\* A send_request that removes no slot when it ends.
CleanupNothing(table, c) == table

\* A send_request that empties the whole table when it ends.
CleanupAll(table, c) == EmptyTable

\* The slot send_request removes in its finally clause.
Cleanup(table, c) == Pop(table, normalize_id(calls[c].id))

\* connection.close() is called on transport k.
Close(k) == [transport EXCEPT ![k] = IF @ = "open" THEN "closed" ELSE @]

\* The connections whose heartbeat loop is inside the send_request call c.
HeartbeatOwner(c) ==
    {k \in TransportIds : heartbeat_tasks[k].state = "requesting" /\ heartbeat_tasks[k].call = c}

\* A heartbeat loop that leaves when the Response does not have status ok.
HeartbeatAfterOkOnly(c, outcome) ==
    [k \in TransportIds |->
        IF k \in HeartbeatOwner(c)
        THEN [heartbeat_tasks[k] EXCEPT
                 !.state = CASE outcome = "response" /\ calls[c].result.status = "ok" -> "sleeping"
                             [] outcome = "timeout" -> "closing"
                             [] OTHER -> "done",
                 !.call = NoCall]
        ELSE heartbeat_tasks[k]]

\* _heartbeat_loop after its send_request has ended: on a Response it sleeps
\* again, on TimeoutError it calls connection.close() and waits for it, on
\* any other exception it leaves the loop.
HeartbeatAfter(c, outcome) ==
    [k \in TransportIds |->
        IF k \in HeartbeatOwner(c)
        THEN [heartbeat_tasks[k] EXCEPT
                 !.state = CASE outcome = "response" -> "sleeping"
                             [] outcome = "timeout" -> "closing"
                             [] OTHER -> "done",
                 !.call = NoCall]
        ELSE heartbeat_tasks[k]]

\* A heartbeat timeout that closes every open connection.
CloseAllOnHeartbeatTimeout(c) ==
    [k \in TransportIds |->
        IF HeartbeatOwner(c) # {} /\ transport[k] = "open" THEN "closed" ELSE transport[k]]

\* The transports after the send_request call c has timed out: a heartbeat
\* loop that made the call closes its connection.
CloseOnHeartbeatTimeout(c) ==
    [k \in TransportIds |->
        IF k \in HeartbeatOwner(c) /\ transport[k] = "open" THEN "closed" ELSE transport[k]]

\* The connections whose send_to_conn of broadcast_request is inside the
\* send_request call c.
BroadcastOwner(c) ==
    {k \in DOMAIN broadcast_task.slot : broadcast_task.slot[k] = c}

\* results[conn] = response / results[conn] = e
Recorded(task, k, outcome, result) ==
    [j \in DOMAIN task.results \cup {k} |->
        IF j = k THEN [outcome |-> outcome, result |-> result] ELSE task.results[j]]

\* broadcast_request after send_to_conn(k) has stored its outcome: gather()
\* ends when that was the last one, and broadcast_request returns.
Record(task, k, outcome, result) ==
    IF DOMAIN Recorded(task, k, outcome, result) = task.targets
    THEN NoBroadcast
    ELSE [task EXCEPT
             !.results = Recorded(task, k, outcome, result),
             !.slot = [j \in DOMAIN task.slot \ {k} |-> task.slot[j]]]

\* The mapping broadcast_request returns on that step, if it returns.
Return(task, k, outcome, result) ==
    IF DOMAIN Recorded(task, k, outcome, result) = task.targets
    THEN [pc |-> "returned", results |-> Recorded(task, k, outcome, result)]
    ELSE NoReturn

\* The send_request call c belongs to a send_to_conn of the broadcast_request
\* in progress.
InBroadcast(c) == broadcast_task.pc = "gathering" /\ BroadcastOwner(c) # {}

\* broadcast_request after the send_request call c of one of its send_to_conn
\* has ended: `except Exception` stores every outcome but a CancelledError,
\* which is no Exception, leaves send_to_conn and is raised by gather().
BroadcastAfter(c, outcome, result) ==
    IF ~InBroadcast(c) THEN broadcast_task
    ELSE IF outcome = "cancelled" THEN NoBroadcast
    ELSE Record(broadcast_task, CHOOSE k \in BroadcastOwner(c) : TRUE, outcome, result)

\* What broadcast_request returns on the step on which call c ends.
BroadcastReturn(c, outcome, result) ==
    IF ~InBroadcast(c) \/ outcome = "cancelled" THEN NoReturn
    ELSE Return(broadcast_task, CHOOSE k \in BroadcastOwner(c) : TRUE, outcome, result)

\* wait_for returns the future's result: send_request returns the Response.
CallReturn(c) ==
    /\ calls[c].pc = "waiting"
    /\ calls[c].future = "result"
    /\ calls' = [calls EXCEPT ![c] = Ended(calls[c], "response", calls[c].result)]
    /\ pending_requests' = Cleanup(pending_requests, c)
    /\ heartbeat_tasks' = HeartbeatAfter(c, "response")
    /\ broadcast_task' = BroadcastAfter(c, "response", calls[c].result)
    /\ returned' = BroadcastReturn(c, "response", calls[c].result)
    /\ wire' = <<>>
    /\ raised' = None
    /\ UNCHANGED <<serving, connections, conn_task, stop_task, engine, codec, event_handler, heartbeat_interval, running,
                   request_handler, transport, clientVars>>

\* A wait on the future that has no deadline: it never times out.
CallWaitForever(c) == FALSE /\ UNCHANGED vars

\* wait_for's deadline passes with the future still pending: wait_for cancels
\* the future and raises TimeoutError.
CallTimeout(c) ==
    /\ calls[c].pc = "waiting"
    /\ calls[c].future = "pending"
    /\ calls[c].elapsed >= EffectiveTimeout(calls[c].timeout)
    /\ calls' = [calls EXCEPT ![c] = Ended(calls[c], "timeout", NoMessage)]
    /\ pending_requests' = Cleanup(pending_requests, c)
    /\ heartbeat_tasks' = HeartbeatAfter(c, "timeout")
    /\ transport' = CloseOnHeartbeatTimeout(c)
    /\ broadcast_task' = BroadcastAfter(c, "timeout", NoMessage)
    /\ returned' = BroadcastReturn(c, "timeout", NoMessage)
    /\ wire' = <<>>
    /\ raised' = None
    /\ UNCHANGED <<serving, connections, conn_task, stop_task, engine, codec, event_handler, heartbeat_interval, running,
                   request_handler, clientVars>>

\* The future was cancelled (disconnect, stop): wait_for raises CancelledError.
CallCancelled(c) ==
    /\ calls[c].pc = "waiting"
    /\ calls[c].future = "cancelled"
    /\ calls' = [calls EXCEPT ![c] = Ended(calls[c], "cancelled", NoMessage)]
    /\ pending_requests' = Cleanup(pending_requests, c)
    /\ heartbeat_tasks' = HeartbeatAfter(c, "cancelled")
    /\ broadcast_task' = BroadcastAfter(c, "cancelled", NoMessage)
    /\ wire' = <<>>
    /\ raised' = IF InBroadcast(c) THEN "CancelledError" ELSE None
    /\ returned' = NoReturn
    /\ UNCHANGED <<serving, connections, conn_task, stop_task, engine, codec, event_handler, heartbeat_interval, running,
                   request_handler, transport, clientVars>>

\* A call whose future is done: wait_for's timer no longer runs.
Completed(call, state, response) ==
    [call EXCEPT !.future = state, !.result = response,
                 !.timeout = NoTimeout, !.elapsed = 0]

\* A response routing that does not look at future.done(): it sets the result
\* of whatever future is stored under the id.
handle_response_overwrite(response) ==
    LET response_id == normalize_id(response.id)
        future == Lookup(pending_requests, response_id)
    IN  IF future # NoCall
        THEN [calls EXCEPT ![future] = Completed(calls[future], "result", response)]
        ELSE calls

\* _handle_response: the future stored under the response's normalized id gets
\* the response, unless there is none or it is done already.
handle_response(response) ==
    LET response_id == normalize_id(response.id)
        future == Lookup(pending_requests, response_id)
    IN  IF future # NoCall /\ calls[future].future = "pending"
        THEN [calls EXCEPT ![future] = Completed(calls[future], "result", response)]
        ELSE calls

\* An event routing that treats the Event like a Response.
handle_event_as_response(event) == handle_response(event)

\* The futures after _handle_event: it looks at none of them.
handle_event(event) == calls

\* for future in self._pending_requests.values(): if not future.done(): future.cancel()
CancelAll(table) ==
    [c \in CallIds |->
        IF (\E k \in DOMAIN table : table[k] = c) /\ calls[c].future = "pending"
        THEN Completed(calls[c], "cancelled", NoMessage)
        ELSE calls[c]]

\* The receive task of connection k is cancelled while the handler it awaits
\* is suspended in send_request: the CancelledError is raised inside wait_for,
\* which cancels the future.
CancelAwaited(k) ==
    [c \in CallIds |->
        IF /\ calls[c].pc = "waiting" /\ calls[c].by = "handler"
           /\ calls[c].conn = k /\ calls[c].future = "pending"
        THEN Completed(calls[c], "cancelled", NoMessage)
        ELSE calls[c]]

\* on_request(handler)
on_request ==
    /\ ~request_handler
    /\ request_handler' = TRUE
    /\ wire' = <<>>
    /\ raised' = None
    /\ returned' = NoReturn
    /\ UNCHANGED <<serverVars, engine, codec, event_handler, heartbeat_interval, running, pending_requests, calls, transport, clientVars>>

\* try: await handler(...) / except Exception as e: logger.error(...).  The
\* handlers whose exception the task has caught and logged, after `handler`
\* has ended with e (None: it returned).
Caught(log, handler, e) == IF e = None THEN log ELSE log \cup {handler}

\* A try statement without the except clause: the exception leaves it.
PropagatedUncaught(e) == e

\* The exception that leaves the try statement around a handler that has
\* ended with e: `except Exception` catches it.
Propagated(e) == None

\* on_event(handler)
on_event ==
    /\ ~event_handler
    /\ event_handler' = TRUE
    /\ wire' = <<>>
    /\ raised' = None
    /\ returned' = NoReturn
    /\ UNCHANGED <<serverVars, engine, codec, heartbeat_interval, running, request_handler,
                   pending_requests, calls, transport, clientVars>>

\* The peer closes the transport, or the transport fails.
PeerClose(k) ==
    /\ transport[k] = "open"
    /\ transport' = [transport EXCEPT ![k] = "dropped"]
    /\ wire' = <<>>
    /\ raised' = None
    /\ returned' = NoReturn
    /\ UNCHANGED <<serverVars, engine, codec, event_handler, heartbeat_interval, running, request_handler, pending_requests, calls, clientVars>>

\* ------------------------------------------------------------ client engine
\* A connection check that looks at _connection only, not at _connected.
HasConnection == connection # NoConnection

\* is_connected
is_connected == connection # NoConnection /\ connected

ReceiveTaskActive == receive_task.state \in {"created", "running", "inhandler"}

\* The transport the next successful websockets.connect returns.
FreshTransport == CHOOSE k \in TransportIds :
    transport[k] = "unused" /\ \A j \in TransportIds : transport[j] = "unused" => k <= j

\* Client _send_message: writes to the current _connection.
ClientSend(message) == <<Frame(connection, message)>>

\* connect(auto_reconnect): sets _running and enters the loop.
Connect(auto) ==
    /\ engine = "client"
    /\ connect_task.pc \in {"none", "returned", "raised"}
    /\ running' = TRUE
    /\ connect_task' = [pc |-> "attempt", auto |-> auto, timer |-> 0]
    /\ wire' = <<>>
    /\ raised' = None
    /\ returned' = NoReturn
    /\ UNCHANGED <<serverVars, engine, codec, event_handler, heartbeat_interval, request_handler, pending_requests, calls, transport,
                   connected, connection, receive_task, disconnect_task>>

\* websockets.connect returns a connection: _connection is set, _connected is
\* set, the receive task is created and connect() awaits it.
AttemptSucceeds ==
    /\ engine = "client"
    /\ connect_task.pc = "attempt"
    /\ \E k \in TransportIds : transport[k] = "unused"
    /\ Work < MaxWork
    /\ connection' = FreshTransport
    /\ transport' = [transport EXCEPT ![FreshTransport] = "open"]
    /\ connected' = TRUE
    /\ receive_task' = [state |-> "created", conn |-> NoConnection, req |-> NoMessage,
                        caught |-> {}]
    /\ connect_task' = [connect_task EXCEPT !.pc = "await_recv"]
    /\ wire' = <<>>
    /\ raised' = None
    /\ returned' = NoReturn
    /\ UNCHANGED <<serverVars, engine, codec, event_handler, heartbeat_interval, running, request_handler, pending_requests, calls,
                   disconnect_task>>

\* What connect() does after an exception: raise ConnectionError, leave the
\* loop, or sleep reconnect_interval.
AfterFailure ==
    IF ~connect_task.auto THEN [connect_task EXCEPT !.pc = "raised"]
    ELSE IF ~running THEN [connect_task EXCEPT !.pc = "returned"]
    ELSE [connect_task EXCEPT !.pc = "sleep", !.timer = reconnect_interval]

\* The loop head of connect(): while self._running.
LoopHead ==
    IF running THEN [connect_task EXCEPT !.pc = "attempt"]
    ELSE [connect_task EXCEPT !.pc = "returned"]

\* websockets.connect raises.
AttemptFails ==
    /\ engine = "client"
    /\ connect_task.pc = "attempt"
    /\ connected' = FALSE
    /\ connect_task' = AfterFailure
    /\ wire' = <<>>
    /\ raised' = IF connect_task.auto THEN None ELSE "ConnectionError"
    /\ returned' = NoReturn
    /\ UNCHANGED <<serverVars, engine, codec, event_handler, heartbeat_interval, running, request_handler, pending_requests, calls,
                   transport, connection, receive_task, disconnect_task>>

\* asyncio.sleep(reconnect_interval) is over.
SleepDone ==
    /\ engine = "client"
    /\ connect_task.pc = "sleep"
    /\ connect_task.timer = 0
    /\ connect_task' = LoopHead
    /\ wire' = <<>>
    /\ raised' = None
    /\ returned' = NoReturn
    /\ UNCHANGED <<serverVars, engine, codec, event_handler, heartbeat_interval, running, request_handler, pending_requests, calls,
                   transport, connected, connection, receive_task, disconnect_task>>

\* await self._receive_task is over: CancelledError when the task was
\* cancelled (connect() leaves the loop), otherwise the loop goes on.
ConnectResume ==
    /\ engine = "client"
    /\ connect_task.pc = "await_recv"
    /\ receive_task.state \in {"done", "cancelled"}
    /\ connect_task' = IF receive_task.state = "cancelled"
                       THEN [connect_task EXCEPT !.pc = "returned"]
                       ELSE LoopHead
    /\ wire' = <<>>
    /\ raised' = None
    /\ returned' = NoReturn
    /\ UNCHANGED <<serverVars, engine, codec, event_handler, heartbeat_interval, running, request_handler, pending_requests, calls,
                   transport, connected, connection, receive_task, disconnect_task>>

\* The task running connect() is cancelled by its owner.  In the connection
\* attempt and in `await self._receive_task` the CancelledError is caught by
\* `except asyncio.CancelledError: break` and connect() returns; the
\* cancellation of the await cancels the receive task, whose finally clause
\* clears _connected if the loop had started.  In asyncio.sleep, inside the
\* except clause, the CancelledError propagates to the caller.
CancelConnect ==
    /\ engine = "client"
    /\ connect_task.pc \in {"attempt", "await_recv", "sleep"}
    /\ connect_task' = [connect_task EXCEPT
                           !.pc = IF @ = "sleep" THEN "raised" ELSE "returned",
                           !.timer = 0]
    /\ IF connect_task.pc = "await_recv" /\ ReceiveTaskActive
       THEN /\ receive_task' = [receive_task EXCEPT !.state = "cancelled", !.req = NoMessage]
            /\ connected' = IF receive_task.state = "created" THEN connected ELSE FALSE
            /\ calls' = CancelAwaited(receive_task.conn)
       ELSE UNCHANGED <<receive_task, connected, calls>>
    /\ wire' = <<>>
    /\ raised' = IF connect_task.pc = "sleep" THEN "CancelledError" ELSE None
    /\ returned' = NoReturn
    /\ UNCHANGED <<serverVars, engine, codec, event_handler, heartbeat_interval, running, request_handler, pending_requests,
                   transport, connection, disconnect_task>>

\* _receive_loop starts: returns at once when _connection is None, otherwise
\* iterates the connection.
ReceiveStart ==
    /\ engine = "client"
    /\ receive_task.state = "created"
    /\ receive_task' = IF connection = NoConnection
                       THEN [receive_task EXCEPT !.state = "done"]
                       ELSE [receive_task EXCEPT !.state = "running", !.conn = connection]
    /\ wire' = <<>>
    /\ raised' = None
    /\ returned' = NoReturn
    /\ UNCHANGED <<serverVars, engine, codec, event_handler, heartbeat_interval, running, request_handler, pending_requests, calls,
                   transport, connected, connection, connect_task, disconnect_task>>

\* The connection's iterator ends or raises: finally _connected.clear().
ReceiveClosed ==
    /\ engine = "client"
    /\ receive_task.state = "running"
    /\ transport[receive_task.conn] # "open"
    /\ receive_task' = [receive_task EXCEPT !.state = "done"]
    /\ connected' = FALSE
    /\ wire' = <<>>
    /\ raised' = None
    /\ returned' = NoReturn
    /\ UNCHANGED <<serverVars, engine, codec, event_handler, heartbeat_interval, running, request_handler, pending_requests, calls,
                   transport, connection, connect_task, disconnect_task>>

\* _handle_request up to its first suspension in a handler: the heartbeat
\* auto-reply, the call of the registered handler, or the no-handler error.
ClientHandleRequest(request) ==
    IF request.command = heartbeat_command
    THEN /\ wire' = ClientSend(Response_success(request.id, "alive"))
         /\ UNCHANGED receive_task
    ELSE IF request_handler
    THEN /\ wire' = <<>>
         /\ receive_task' = [receive_task EXCEPT !.state = "inhandler", !.req = request]
    ELSE /\ wire' = ClientSend(Response_fail(request.id, "No request handler registered"))
         /\ UNCHANGED receive_task

\* Client _handle_event up to its first suspension: the registered handler is
\* called with the event and awaited; without a handler the event is dropped.
ClientHandleEvent(event) ==
    IF event_handler
    THEN [receive_task EXCEPT !.state = "inhandler", !.req = event]
    ELSE receive_task

\* The handler the receive loop of connection k awaits is itself suspended in
\* a send_request on that connection: it cannot return before the call ends.
HandlerAwaits(k) ==
    \E c \in CallIds : calls[c].pc = "waiting" /\ calls[c].by = "handler" /\ calls[c].conn = k

\* A client receive loop that takes the next frame while a handler is still
\* busy with the frame before.
ClientLoopReadyInHandler == receive_task.state \in {"running", "inhandler"}

\* `async for message in self._connection` takes the next frame only when
\* the await of _handle_message for the frame before has returned.
ClientLoopReady == receive_task.state = "running"

\* One iteration of _receive_loop.  A binary frame that does not decode
\* raises outside the inner try: the loop ends and the finally clause clears
\* _connected.  Any other frame goes to _handle_message.
ClientReceive(raw) ==
    /\ engine = "client"
    /\ ClientLoopReady
    /\ transport[receive_task.conn] = "open"
    /\ IF raw = Undecodable
       THEN /\ receive_task' = [receive_task EXCEPT !.state = "done"]
            /\ connected' = FALSE
            /\ wire' = <<>>
            /\ UNCHANGED calls
       ELSE /\ UNCHANGED connected
            /\ LET message == Decoded[raw]
               IN  CASE message.type = "request" ->
                          /\ ClientHandleRequest(message)
                          /\ UNCHANGED calls
                     [] message.type = "response" ->
                          /\ calls' = handle_response(message)
                          /\ wire' = <<>>
                          /\ UNCHANGED receive_task
                     [] message.type = "event" ->
                          /\ calls' = handle_event(message)
                          /\ wire' = <<>>
                          /\ receive_task' = ClientHandleEvent(message)
                     [] OTHER ->
                          /\ wire' = <<>>
                          /\ UNCHANGED <<calls, receive_task>>
    /\ raised' = None
    /\ returned' = NoReturn
    /\ UNCHANGED <<serverVars, engine, codec, event_handler, heartbeat_interval, running, request_handler, pending_requests, transport,
                   connection, connect_task, disconnect_task>>

\* The frames _handle_request writes once the handler has returned `response`:
\* the response, and when that write raises, the error response of the
\* except clause.
ReplyFrames(send1, request) ==
    IF Delivered(send1) THEN send1
    ELSE send1 \o ClientSend(Response_fail(request.id, "write failed"))

\* What a request handler may return for a request.
HandlerResponse(request, status) ==
    IF status = "ok" THEN Response_success(request.id, "d")
    ELSE Response_fail(request.id, "e")

HandlerErrors == {"x"}

\* The registered request handler returns a Response.
ClientHandlerReturns(status) ==
    /\ engine = "client"
    /\ receive_task.state = "inhandler"
    /\ ~HandlerAwaits(receive_task.conn)
    /\ receive_task.req.type = "request"
    /\ wire' = ReplyFrames(ClientSend(HandlerResponse(receive_task.req, status)),
                           receive_task.req)
    /\ receive_task' = [receive_task EXCEPT !.state = "running", !.req = NoMessage]
    /\ raised' = None
    /\ returned' = NoReturn
    /\ UNCHANGED <<serverVars, engine, codec, event_handler, heartbeat_interval, running, request_handler, pending_requests, calls,
                   transport, connected, connection, connect_task, disconnect_task>>

\* The registered request handler raises Exception(text).
ClientHandlerRaises(text) ==
    /\ engine = "client"
    /\ receive_task.state = "inhandler"
    /\ ~HandlerAwaits(receive_task.conn)
    /\ receive_task.req.type = "request"
    /\ wire' = ClientSend(Response_fail(receive_task.req.id, text))
    /\ receive_task' = [receive_task EXCEPT !.state = "running", !.req = NoMessage]
    /\ raised' = None
    /\ returned' = NoReturn
    /\ UNCHANGED <<serverVars, engine, codec, event_handler, heartbeat_interval, running, request_handler, pending_requests, calls,
                   transport, connected, connection, connect_task, disconnect_task>>

\* The registered event handler has ended with e, None when it returned and
\* else the Exception it raised (which _handle_event logs): the receive loop
\* goes on.
ClientEventHandlerEnds(e) ==
    /\ engine = "client"
    /\ receive_task.state = "inhandler"
    /\ ~HandlerAwaits(receive_task.conn)
    /\ receive_task.req.type = "event"
    /\ receive_task' = [receive_task EXCEPT !.state = "running", !.req = NoMessage,
                                            !.caught = Caught(@, "event", e)]
    /\ wire' = <<>>
    /\ raised' = Propagated(e)
    /\ returned' = NoReturn
    /\ UNCHANGED <<serverVars, engine, codec, event_handler, heartbeat_interval, running, request_handler,
                   pending_requests, calls, transport, connected, connection, connect_task,
                   disconnect_task>>

\* disconnect() up to its first suspension: clears the flags, cancels the
\* receive task and awaits it; else closes the connection and awaits that;
\* else runs to its end.
DisconnectBegin ==
    /\ engine = "client"
    /\ disconnect_task.pc = "idle"
    /\ running' = FALSE
    /\ connected' = FALSE
    /\ wire' = <<>>
    /\ IF ReceiveTaskActive
       THEN /\ receive_task' = [receive_task EXCEPT !.state = "cancelled", !.req = NoMessage]
            /\ disconnect_task' = [pc |-> "await_recv"]
            /\ calls' = CancelAwaited(receive_task.conn)
            /\ raised' = None
            /\ returned' = NoReturn
            /\ UNCHANGED <<transport, connection, pending_requests>>
       ELSE IF connection # NoConnection
       THEN /\ transport' = Close(connection)
            /\ disconnect_task' = [pc |-> "closing"]
            /\ raised' = None
            /\ returned' = NoReturn
            /\ UNCHANGED <<receive_task, connection, calls, pending_requests>>
       ELSE /\ calls' = CancelAll(pending_requests)
            /\ pending_requests' = EmptyTable
            /\ raised' = None
            /\ returned' = NoReturn
            /\ UNCHANGED <<receive_task, transport, connection, disconnect_task>>
    /\ UNCHANGED <<serverVars, engine, codec, event_handler, heartbeat_interval, request_handler, connect_task>>

\* disconnect() after the cancelled receive task has ended.
DisconnectResume ==
    /\ engine = "client"
    /\ disconnect_task.pc = "await_recv"
    /\ wire' = <<>>
    /\ IF connection # NoConnection
       THEN /\ transport' = Close(connection)
            /\ disconnect_task' = [pc |-> "closing"]
            /\ raised' = None
            /\ returned' = NoReturn
            /\ UNCHANGED <<calls, pending_requests>>
       ELSE /\ calls' = CancelAll(pending_requests)
            /\ pending_requests' = EmptyTable
            /\ disconnect_task' = [pc |-> "idle"]
            /\ raised' = None
            /\ returned' = NoReturn
            /\ UNCHANGED transport
    /\ UNCHANGED <<serverVars, engine, codec, event_handler, heartbeat_interval, running, request_handler, connected, connection,
                   receive_task, connect_task>>

\* disconnect() after connection.close() has returned: drops the connection,
\* cancels the pending futures and clears the table.
DisconnectFinish ==
    /\ engine = "client"
    /\ disconnect_task.pc = "closing"
    /\ connection' = NoConnection
    /\ calls' = CancelAll(pending_requests)
    /\ pending_requests' = EmptyTable
    /\ disconnect_task' = [pc |-> "idle"]
    /\ wire' = <<>>
    /\ raised' = None
    /\ returned' = NoReturn
    /\ UNCHANGED <<serverVars, engine, codec, event_handler, heartbeat_interval, running, request_handler, transport, connected,
                   receive_task, connect_task>>

\* The registered event handler returns.
ClientEventHandlerDone == ClientEventHandlerEnds(None)

\* The registered event handler raises Exception(text).
ClientEventHandlerRaises(text) == ClientEventHandlerEnds(text)

\* Client send_request(command, params, timeout=timeout).
ClientSendRequest(timeout) ==
    /\ engine = "client"
    /\ IF ~is_connected
       THEN /\ raised' = "ConnectionError"
            /\ returned' = NoReturn
            /\ wire' = <<>>
            /\ UNCHANGED <<calls, pending_requests>>
       ELSE /\ NextCall \in CallIds
            /\ Work < MaxWork
            /\ StartCall(NextCall, connection, timeout, "echo")
    /\ UNCHANGED <<serverVars, engine, codec, event_handler, heartbeat_interval, running, request_handler, transport, clientVars>>

\* The request handler the receive loop is awaiting calls
\* send_request(command, params, timeout=timeout) on the client and awaits it.
ClientHandlerSendRequest(timeout) ==
    /\ engine = "client"
    /\ receive_task.state = "inhandler"
    /\ receive_task.req.type = "request"
    /\ ~HandlerAwaits(receive_task.conn)
    /\ is_connected
    /\ connection = receive_task.conn
    /\ NextCall \in CallIds
    /\ Work < MaxWork
    /\ SendAs(NextCall, connection, timeout, "echo", uuid4(NextCall), "handler")
    /\ raised' = None
    /\ returned' = NoReturn
    /\ UNCHANGED <<serverVars, engine, codec, event_handler, heartbeat_interval, running, request_handler, transport, clientVars>>

\* Client send_request(command, params) whose uuid4() collides with the id of
\* the pending call d.
ClientSendRequestDuplicate(d) ==
    /\ engine = "client"
    /\ is_connected
    /\ NextCall \in CallIds
    /\ Work < MaxWork
    /\ calls[d].pc = "waiting"
    /\ StartDuplicateCall(NextCall, connection, NoTimeout, "echo", d)
    /\ UNCHANGED <<serverVars, engine, codec, event_handler, heartbeat_interval, running, request_handler, transport,
                   clientVars>>

\* Client send_event(name, data).
ClientSendEvent ==
    /\ engine = "client"
    /\ IF ~is_connected
       THEN /\ raised' = "ConnectionError"
            /\ returned' = NoReturn
            /\ wire' = <<>>
       ELSE /\ wire' = ClientSend(Event(uuid4(0), "ev", None))
            /\ raised' = IF Delivered(wire') THEN None ELSE "ConnectionClosed"
            /\ returned' = NoReturn
    /\ UNCHANGED <<serverVars, engine, codec, event_handler, heartbeat_interval, running, request_handler, pending_requests, calls,
                   transport, clientVars>>

\* ------------------------------------------------------------------- time
Timing(c) == calls[c].pc = "waiting" /\ calls[c].future = "pending"

\* One unit of time passes on every running timer; no timer runs past its
\* deadline.
Tick ==
    /\ \A c \in CallIds : Timing(c) => calls[c].elapsed < EffectiveTimeout(calls[c].timeout)
    /\ connect_task.pc = "sleep" => connect_task.timer > 0
    /\ (\E c \in CallIds : Timing(c)) \/ connect_task.pc = "sleep"
    /\ calls' = [c \in CallIds |->
                    IF Timing(c) THEN [calls[c] EXCEPT !.elapsed = @ + 1] ELSE calls[c]]
    /\ connect_task' = IF connect_task.pc = "sleep"
                       THEN [connect_task EXCEPT !.timer = @ - 1] ELSE connect_task
    /\ wire' = <<>>
    /\ raised' = None
    /\ returned' = NoReturn
    /\ UNCHANGED <<serverVars, engine, codec, event_handler, heartbeat_interval, running, request_handler, pending_requests, transport,
                   connected, connection, receive_task, disconnect_task>>

\* ------------------------------------------------------------ server engine
\* _send_message(connection, message)
ServerSend(k, message) == <<Frame(k, message)>>

\* start(): sets _running and serves.
Start ==
    /\ engine = "server"
    /\ ~serving
    /\ serving' = TRUE
    /\ running' = TRUE
    /\ wire' = <<>>
    /\ raised' = None
    /\ returned' = NoReturn
    /\ UNCHANGED <<engine, codec, event_handler, heartbeat_interval, request_handler, pending_requests, calls, transport,
                   clientVars, connections, conn_task, stop_task, heartbeat_tasks,
                   broadcast_task>>

\* _handle_connection up to its first suspension: the connection is added to
\* the registry and the on_connect handler is invoked.  (The on_connect and
\* on_disconnect handlers are registered before start().)
Accept ==
    /\ engine = "server"
    /\ serving
    /\ \E k \in TransportIds : transport[k] = "unused"
    /\ Work < MaxWork
    /\ transport' = [transport EXCEPT ![FreshTransport] = "open"]
    /\ connections' = connections \cup {FreshTransport}
    /\ conn_task' = [conn_task EXCEPT ![FreshTransport] =
                        [@ EXCEPT !.state = "on_connect", !.on_connect = @ + 1]]
    /\ wire' = <<>>
    /\ raised' = None
    /\ returned' = NoReturn
    /\ UNCHANGED <<engine, codec, event_handler, heartbeat_interval, running, request_handler, pending_requests, calls,
                   clientVars, serving, stop_task, heartbeat_tasks, broadcast_task>>

\* A server that starts heartbeats whatever heartbeat_interval is.
HeartbeatEnabledAlways == TRUE

\* if self.heartbeat_interval is not None
HeartbeatEnabled == heartbeat_interval # None

\* The on_connect handler has ended with e, None when it returned and else
\* the Exception it raised: unless the heartbeat is disabled the heartbeat
\* task is created and stored in _heartbeat_tasks, and _receive_loop starts.
OnConnectEnds(k, e) ==
    /\ engine = "server"
    /\ conn_task[k].state = "on_connect"
    /\ ~HandlerAwaits(k)
    /\ conn_task' = [conn_task EXCEPT ![k] =
                        [@ EXCEPT !.state = "running",
                                  !.caught = Caught(@, "on_connect", e)]]
    /\ heartbeat_tasks' = IF HeartbeatEnabled
                          THEN [heartbeat_tasks EXCEPT ![k] =
                                   [state |-> "sleeping", call |-> NoCall, listed |-> TRUE]]
                          ELSE heartbeat_tasks
    /\ wire' = <<>>
    /\ raised' = Propagated(e)
    /\ returned' = NoReturn
    /\ UNCHANGED <<engine, codec, event_handler, heartbeat_interval, running, request_handler, pending_requests, calls, transport,
                   clientVars, serving, connections, stop_task, broadcast_task>>

\* The on_connect handler returns.
OnConnectDone(k) == OnConnectEnds(k, None)

\* The on_connect handler raises Exception(text).
OnConnectRaises(k, text) == OnConnectEnds(k, text)

\* task.cancel() on the heartbeat tasks of the connections K that have an
\* entry in _heartbeat_tasks and are not done, and the removal of the entries.
CancelHeartbeats(K) ==
    [k \in TransportIds |->
        IF k \in K /\ heartbeat_tasks[k].listed
        THEN [state |-> IF heartbeat_tasks[k].state \in {"sleeping", "requesting", "closing"}
                        THEN "cancelled" ELSE heartbeat_tasks[k].state,
              call |-> NoCall, listed |-> FALSE]
        ELSE heartbeat_tasks[k]]

\* The futures after that cancellation: a heartbeat task cancelled inside
\* send_request has the future it waits for cancelled.
CancelHeartbeatCalls(K) ==
    [c \in CallIds |->
        IF /\ \E k \in K : heartbeat_tasks[k].listed /\ k \in HeartbeatOwner(c)
           /\ calls[c].future = "pending"
        THEN Completed(calls[c], "cancelled", NoMessage)
        ELSE calls[c]]

\* A finally clause that leaves the connection in the registry.
discard_nothing(registry, k) == registry

\* self._connections.discard(connection)
discard(registry, k) == registry \ {k}

\* The finally clause of _handle_connection for connection k: the heartbeat
\* task is removed and cancelled, the connection is removed from the registry
\* and the on_disconnect handler is invoked, which ends with e (None: it
\* returned).
TeardownWith(k, e) ==
    /\ heartbeat_tasks' = CancelHeartbeats({k})
    /\ calls' = CancelHeartbeatCalls({k})
    /\ connections' = discard(connections, k)
    /\ conn_task' = [conn_task EXCEPT ![k] =
                        [@ EXCEPT !.state = "done", !.req = NoMessage, !.on_disconnect = @ + 1,
                                  !.caught = Caught(@, "on_disconnect", e)]]

\* The finally clause of _handle_connection with an on_disconnect handler
\* that returns.
Teardown(k) == TeardownWith(k, None)

\* _receive_loop ends (the iterator ends or raises) and _handle_connection
\* runs its finally clause, in which the on_disconnect handler ends with e.
ConnectionClosedWith(k, e) ==
    /\ engine = "server"
    /\ conn_task[k].state = "running"
    /\ transport[k] # "open"
    /\ TeardownWith(k, e)
    /\ wire' = <<>>
    /\ raised' = Propagated(e)
    /\ returned' = NoReturn
    /\ UNCHANGED <<engine, codec, event_handler, heartbeat_interval, running, request_handler, pending_requests,
                   transport, clientVars, serving, stop_task, broadcast_task>>

\* _receive_loop ends and the on_disconnect handler returns.
ServerConnectionClosed(k) == ConnectionClosedWith(k, None)

\* _receive_loop ends and the on_disconnect handler raises Exception(text).
OnDisconnectRaises(k, text) == ConnectionClosedWith(k, text)

\* Server _handle_request up to its first suspension in a handler: the call
\* of the registered handler, or the no-handler error.
ServerHandleRequest(k, request) ==
    IF request_handler
    THEN /\ wire' = <<>>
         /\ conn_task' = [conn_task EXCEPT ![k] = [@ EXCEPT !.state = "inhandler", !.req = request]]
    ELSE /\ wire' = ServerSend(k, Response_fail(request.id, "No request handler registered"))
         /\ UNCHANGED conn_task

\* Server _handle_event up to its first suspension: the registered handler is
\* called with the connection and the event and awaited; without a handler the
\* event is dropped.
ServerHandleEvent(k, event) ==
    IF event_handler
    THEN [conn_task EXCEPT ![k] = [@ EXCEPT !.state = "inhandler", !.req = event]]
    ELSE conn_task

\* A receive loop that takes the next frame while a handler is still busy
\* with the frame before.
ServerLoopReadyInHandler(k) == conn_task[k].state \in {"running", "inhandler"}

\* `async for message in connection` takes the next frame only when the
\* await of _handle_message for the frame before has returned.
ServerLoopReady(k) == conn_task[k].state = "running"

\* One iteration of the server's _receive_loop on connection k.  A binary
\* frame that does not decode ends the loop: _handle_connection runs its
\* finally clause and returns, and serve() closes the transport.
ServerReceive(k, raw) ==
    /\ engine = "server"
    /\ ServerLoopReady(k)
    /\ transport[k] = "open"
    /\ IF raw = Undecodable
       THEN /\ Teardown(k)
            /\ transport' = Close(k)
            /\ wire' = <<>>
       ELSE /\ UNCHANGED <<connections, transport, heartbeat_tasks>>
            /\ LET message == Decoded[raw]
               IN  CASE message.type = "request" ->
                          /\ ServerHandleRequest(k, message)
                          /\ UNCHANGED calls
                     [] message.type = "response" ->
                          /\ calls' = handle_response(message)
                          /\ wire' = <<>>
                          /\ UNCHANGED conn_task
                     [] message.type = "event" ->
                          /\ calls' = handle_event(message)
                          /\ wire' = <<>>
                          /\ conn_task' = ServerHandleEvent(k, message)
                     [] OTHER ->
                          /\ wire' = <<>>
                          /\ UNCHANGED <<calls, conn_task>>
    /\ raised' = None
    /\ returned' = NoReturn
    /\ UNCHANGED <<engine, codec, event_handler, heartbeat_interval, running, request_handler, pending_requests,
                   clientVars, serving, stop_task, broadcast_task>>

\* A _handle_request that writes the error Response after the handler's
\* Response whether or not the first write raised.
ServerReplyFramesBoth(k, response, request) ==
    ServerSend(k, response) \o ServerSend(k, Response_fail(request.id, "write failed"))

\* The frames the server's _handle_request writes once the handler has
\* returned `response`.
ServerReplyFrames(k, response, request) ==
    IF Delivered(ServerSend(k, response)) THEN ServerSend(k, response)
    ELSE ServerSend(k, response) \o ServerSend(k, Response_fail(request.id, "write failed"))

\* The server's registered request handler returns a Response.
ServerHandlerReturns(k, status) ==
    /\ engine = "server"
    /\ conn_task[k].state = "inhandler"
    /\ ~HandlerAwaits(k)
    /\ conn_task[k].req.type = "request"
    /\ wire' = ServerReplyFrames(k, HandlerResponse(conn_task[k].req, status), conn_task[k].req)
    /\ conn_task' = [conn_task EXCEPT ![k] = [@ EXCEPT !.state = "running", !.req = NoMessage]]
    /\ raised' = None
    /\ returned' = NoReturn
    /\ UNCHANGED <<engine, codec, event_handler, heartbeat_interval, running, request_handler, pending_requests, calls,
                   transport, clientVars, serving, connections, stop_task,
                   heartbeat_tasks, broadcast_task>>

\* The server's registered request handler raises Exception(text).
ServerHandlerRaises(k, text) ==
    /\ engine = "server"
    /\ conn_task[k].state = "inhandler"
    /\ ~HandlerAwaits(k)
    /\ conn_task[k].req.type = "request"
    /\ wire' = ServerSend(k, Response_fail(conn_task[k].req.id, text))
    /\ conn_task' = [conn_task EXCEPT ![k] = [@ EXCEPT !.state = "running", !.req = NoMessage]]
    /\ raised' = None
    /\ returned' = NoReturn
    /\ UNCHANGED <<engine, codec, event_handler, heartbeat_interval, running, request_handler, pending_requests, calls,
                   transport, clientVars, serving, connections, stop_task,
                   heartbeat_tasks, broadcast_task>>

\* The server's registered event handler has ended with e, None when it
\* returned and else the Exception it raised (which _handle_event logs): the
\* receive loop of connection k goes on.
ServerEventHandlerEnds(k, e) ==
    /\ engine = "server"
    /\ conn_task[k].state = "inhandler"
    /\ ~HandlerAwaits(k)
    /\ conn_task[k].req.type = "event"
    /\ conn_task' = [conn_task EXCEPT ![k] =
                        [@ EXCEPT !.state = "running", !.req = NoMessage,
                                  !.caught = Caught(@, "event", e)]]
    /\ wire' = <<>>
    /\ raised' = Propagated(e)
    /\ returned' = NoReturn
    /\ UNCHANGED <<engine, codec, event_handler, heartbeat_interval, running, request_handler, pending_requests,
                   calls, transport, clientVars, serving, connections, stop_task,
                   heartbeat_tasks, broadcast_task>>

\* The server's registered event handler returns.
ServerEventHandlerDone(k) == ServerEventHandlerEnds(k, None)

\* The server's registered event handler raises Exception(text).
ServerEventHandlerRaises(k, text) == ServerEventHandlerEnds(k, text)

\* Server send_request(connection, command, params, timeout=timeout), called
\* while the budget of the run lasts.
ServerSendRequest(k, timeout) ==
    /\ engine = "server"
    /\ Work < MaxWork
    /\ IF k \notin connections
       THEN /\ raised' = "ConnectionError"
            /\ returned' = NoReturn
            /\ wire' = <<>>
            /\ UNCHANGED <<calls, pending_requests>>
       ELSE /\ NextCall \in CallIds
            /\ Work < MaxWork
            /\ StartCall(NextCall, k, timeout, "echo")
    /\ UNCHANGED <<engine, codec, event_handler, heartbeat_interval, running, request_handler, transport, clientVars, serverVars>>

\* The on_connect handler or the request handler that the task of connection
\* k is awaiting calls send_request(connection, command, params,
\* timeout=timeout) for its own connection and awaits it.
ServerHandlerSendRequest(k, timeout) ==
    /\ engine = "server"
    /\ \/ conn_task[k].state = "on_connect"
       \/ conn_task[k].state = "inhandler" /\ conn_task[k].req.type = "request"
    /\ ~HandlerAwaits(k)
    /\ k \in connections
    /\ NextCall \in CallIds
    /\ Work < MaxWork
    /\ SendAs(NextCall, k, timeout, "echo", uuid4(NextCall), "handler")
    /\ raised' = None
    /\ returned' = NoReturn
    /\ UNCHANGED <<engine, codec, event_handler, heartbeat_interval, running, request_handler, transport, clientVars, serverVars>>

\* Server send_request(connection, command, params) whose uuid4() collides
\* with the id of the pending call d.
ServerSendRequestDuplicate(k, d) ==
    /\ engine = "server"
    /\ k \in connections
    /\ NextCall \in CallIds
    /\ Work < MaxWork
    /\ calls[d].pc = "waiting"
    /\ StartDuplicateCall(NextCall, k, NoTimeout, "echo", d)
    /\ UNCHANGED <<engine, codec, event_handler, heartbeat_interval, running, request_handler, transport,
                   clientVars, serverVars>>

\* Server send_event(connection, name, data), called while the budget of the
\* run lasts.
ServerSendEvent(k) ==
    /\ engine = "server"
    /\ Work < MaxWork
    /\ IF k \notin connections
       THEN /\ raised' = "ConnectionError"
            /\ returned' = NoReturn
            /\ wire' = <<>>
       ELSE /\ wire' = ServerSend(k, Event(uuid4(0), "ev", None))
            /\ raised' = IF Delivered(wire') THEN None ELSE "ConnectionClosed"
            /\ returned' = NoReturn
    /\ UNCHANGED <<engine, codec, event_handler, heartbeat_interval, running, request_handler, pending_requests, calls,
                   transport, clientVars, serverVars>>

\* A heartbeat loop that takes every connection for registered.
RegisteredAlways(k) == TRUE

\* connection in self._connections
Registered(k) == k \in connections

\* _heartbeat_loop of connection k after asyncio.sleep(heartbeat_interval):
\* it leaves the loop when the connection is no longer registered, otherwise
\* it calls send_request(connection, heartbeat_command,
\* timeout=request_timeout) and waits; a failed write ends the loop.
HeartbeatWake(k) ==
    /\ engine = "server"
    /\ heartbeat_tasks[k].state = "sleeping"
    /\ IF ~Registered(k)
       THEN /\ heartbeat_tasks' = [heartbeat_tasks EXCEPT ![k] = [@ EXCEPT !.state = "done"]]
            /\ wire' = <<>>
            /\ UNCHANGED <<calls, pending_requests>>
       ELSE /\ NextCall \in CallIds
            /\ Work < MaxWork
            /\ SendAs(NextCall, k, NoTimeout, heartbeat_command, uuid4(NextCall), "heartbeat")
            /\ heartbeat_tasks' = [heartbeat_tasks EXCEPT ![k] =
                  IF Writable(k) THEN [@ EXCEPT !.state = "requesting", !.call = NextCall]
                  ELSE [@ EXCEPT !.state = "done"]]
    /\ raised' = None
    /\ returned' = NoReturn
    /\ UNCHANGED <<engine, codec, event_handler, heartbeat_interval, running, request_handler, transport, clientVars,
                   serving, connections, conn_task, stop_task, broadcast_task>>

\* _heartbeat_loop of connection k after the connection.close() it called on
\* a heartbeat timeout has returned: it leaves the loop.
HeartbeatCloseDone(k) ==
    /\ engine = "server"
    /\ heartbeat_tasks[k].state = "closing"
    /\ heartbeat_tasks' = [heartbeat_tasks EXCEPT ![k] = [@ EXCEPT !.state = "done"]]
    /\ wire' = <<>>
    /\ raised' = None
    /\ returned' = NoReturn
    /\ UNCHANGED <<engine, codec, event_handler, heartbeat_interval, running, request_handler, pending_requests, calls, transport,
                   clientVars, serving, connections, conn_task, stop_task, broadcast_task>>

\* The frames written when `message` is sent to each connection of K, one
\* _send_message per connection.
RECURSIVE SendAll(_, _)
SendAll(K, message) ==
    IF K = {} THEN <<>>
    ELSE LET k == CHOOSE j \in K : \A i \in K : j <= i
         IN  ServerSend(k, message) \o SendAll(K \ {k}, message)

\* A gather that raises the first exception of its awaitables.
gather_raise_first(frames) == IF Delivered(frames) THEN None ELSE "ConnectionClosed"

\* What `await asyncio.gather(*tasks, return_exceptions=True)` raises when
\* the writes `frames` were attempted: nothing, the exceptions are collected.
gather_return_exceptions(frames) == None

\* A broadcast that targets every registered connection.
TargetsAll(exclude) == connections

\* The connections a broadcast with the exclude set `exclude` targets.
Targets(exclude) == {k \in connections : k \notin exclude}

\* broadcast_event(name, data, exclude=exclude): one Event is written to
\* every registered connection that is not excluded.
BroadcastEvent(exclude) ==
    /\ engine = "server"
    /\ NextCall - 1 <= MaxCallsBeforeBroadcast
    /\ wire' = SendAll(Targets(exclude), Event(uuid4(0), "ev", None))
    /\ raised' = gather_return_exceptions(wire')
    /\ returned' = NoReturn
    /\ UNCHANGED <<engine, codec, event_handler, heartbeat_interval, running, request_handler, pending_requests, calls,
                   transport, clientVars, serverVars>>

\* The targets of a broadcast_request whose write succeeds, and the
\* send_request call made for each of them.
WritableTargets(exclude) == {k \in Targets(exclude) : Writable(k)}

CallOf(k, exclude) == NextCall + Cardinality({j \in WritableTargets(exclude) : j < k})

\* The frames the send_to_conn tasks write: each target gets its own Request.
RECURSIVE SendRequests(_, _)
SendRequests(K, exclude) ==
    IF K = {} THEN <<>>
    ELSE LET k == CHOOSE j \in K : \A i \in K : j <= i
         IN  ServerSend(k, Request(uuid4(CallOf(k, exclude)), "echo", None))
                \o SendRequests(K \ {k}, exclude)

\* The outcomes stored at once: the exception of every write that failed.
FailedWrites(exclude) ==
    [k \in Targets(exclude) \ WritableTargets(exclude) |->
        [outcome |-> "transport_error", result |-> NoMessage]]

\* broadcast_request(command, params, timeout=timeout, exclude=exclude) up to
\* the suspension of its send_to_conn tasks: one send_request per targeted
\* connection, each registering its own slot and writing its own Request; a
\* write that raises removes its slot again and its exception is stored as
\* the outcome of that connection.  Without a target, or when every write
\* failed, it returns at once.
BroadcastRequest(timeout, exclude) ==
    LET started == WritableTargets(exclude)
        n == Cardinality(started)
    IN
    /\ engine = "server"
    /\ broadcast_task.pc = "idle"
    /\ NextCall - 1 <= MaxCallsBeforeBroadcast
    /\ n > 0 => /\ NextCall + n - 1 \in CallIds
                /\ Work + n <= MaxWork
    /\ wire' = SendRequests(Targets(exclude), exclude)
    /\ calls' = [c \in CallIds |->
                    IF \E k \in started : CallOf(k, exclude) = c
                    THEN [pc |-> "waiting", id |-> uuid4(c),
                          conn |-> CHOOSE k \in started : CallOf(k, exclude) = c,
                          timeout |-> timeout, elapsed |-> 0, future |-> "pending",
                          result |-> NoMessage, outcome |-> "none", by |-> "api"]
                    ELSE calls[c]]
    /\ pending_requests' =
          [id \in DOMAIN pending_requests \cup
                  {normalize_id(uuid4(CallOf(k, exclude))) : k \in started} |->
              IF id \in DOMAIN pending_requests THEN pending_requests[id]
              ELSE CHOOSE c \in CallIds : normalize_id(uuid4(c)) = id]
    /\ broadcast_task' =
          IF n = 0 THEN NoBroadcast
          ELSE [pc |-> "gathering", targets |-> Targets(exclude),
                slot |-> [k \in started |-> CallOf(k, exclude)],
                results |-> FailedWrites(exclude)]
    /\ returned' = IF n = 0 THEN [pc |-> "returned", results |-> FailedWrites(exclude)]
                   ELSE NoReturn
    /\ raised' = None
    /\ UNCHANGED <<engine, codec, event_handler, heartbeat_interval, running, request_handler, transport, clientVars,
                   serving, connections, conn_task, stop_task, heartbeat_tasks>>

\* The end of stop(): the registry is cleared, the pending futures are
\* cancelled and the table is cleared.
StopFinish ==
    /\ connections' = {}
    /\ calls' = CancelAll(pending_requests)
    /\ pending_requests' = EmptyTable
    /\ stop_task' = [pc |-> "idle", todo |-> {}]
    /\ UNCHANGED transport

\* stop() closes connection k of its list and awaits that.
StopClose(k, todo) ==
    /\ transport' = Close(k)
    /\ stop_task' = [pc |-> "closing", todo |-> todo \ {k}]
    /\ UNCHANGED <<connections, pending_requests>>

\* stop() up to its first suspension: the heartbeat tasks in _heartbeat_tasks
\* are cancelled and the table is cleared, then the connections are closed
\* one after the other.
StopBegin ==
    /\ engine = "server"
    /\ stop_task.pc = "idle"
    /\ running' = FALSE
    /\ heartbeat_tasks' = CancelHeartbeats(TransportIds)
    /\ IF connections = {} THEN StopFinish
       ELSE /\ \E k \in connections : StopClose(k, connections)
            /\ calls' = CancelHeartbeatCalls(TransportIds)
    /\ wire' = <<>>
    /\ raised' = None
    /\ returned' = NoReturn
    /\ UNCHANGED <<engine, codec, event_handler, heartbeat_interval, request_handler, clientVars, serving, conn_task, broadcast_task>>

\* stop() after a connection.close() has returned.
StopResume ==
    /\ engine = "server"
    /\ stop_task.pc = "closing"
    /\ IF stop_task.todo = {} THEN StopFinish
       ELSE /\ \E k \in stop_task.todo : StopClose(k, stop_task.todo)
            /\ UNCHANGED calls
    /\ wire' = <<>>
    /\ raised' = None
    /\ returned' = NoReturn
    /\ UNCHANGED <<engine, codec, event_handler, heartbeat_interval, running, request_handler, clientVars, serving, conn_task,
                   heartbeat_tasks, broadcast_task>>

\* ------------------------------------------------------------ specification
ClientNext ==
    \/ \E auto \in BOOLEAN : Connect(auto)
    \/ AttemptSucceeds
    \/ AttemptFails
    \/ SleepDone
    \/ ConnectResume
    \/ CancelConnect
    \/ ReceiveStart
    \/ ReceiveClosed
    \/ \E raw \in PeerFrames : ClientReceive(raw)
    \/ \E status \in {"ok", "error"} : ClientHandlerReturns(status)
    \/ \E text \in HandlerErrors : ClientHandlerRaises(text)
    \/ DisconnectBegin
    \/ DisconnectResume
    \/ DisconnectFinish
    \/ \E timeout \in Timeouts : ClientSendRequest(timeout)
    \/ ClientSendEvent

ServerNext ==
    \/ Start
    \/ Accept
    \/ \E k \in TransportIds : OnConnectDone(k)
    \/ \E k \in TransportIds : HeartbeatWake(k)
    \/ \E k \in TransportIds : HeartbeatCloseDone(k)
    \/ \E k \in TransportIds : ServerConnectionClosed(k)
    \/ \E k \in TransportIds, raw \in PeerFrames : ServerReceive(k, raw)
    \/ \E k \in TransportIds, status \in {"ok", "error"} : ServerHandlerReturns(k, status)
    \/ \E k \in TransportIds, text \in HandlerErrors : ServerHandlerRaises(k, text)
    \/ \E k \in TransportIds, timeout \in Timeouts : ServerSendRequest(k, timeout)
    \/ \E k \in TransportIds : ServerSendEvent(k)
    \/ \E exclude \in SUBSET TransportIds : BroadcastEvent(exclude)
    \/ \E timeout \in BroadcastTimeouts, exclude \in SUBSET TransportIds : BroadcastRequest(timeout, exclude)
    \/ StopBegin
    \/ StopResume

Next ==
    \/ ClientNext
    \/ ServerNext
    \/ on_request
    \/ \E k \in TransportIds : PeerClose(k)
    \/ \E c \in CallIds : CallReturn(c)
    \/ \E c \in CallIds : CallTimeout(c)
    \/ \E c \in CallIds : CallCancelled(c)
    \/ Tick

Spec == Init /\ [][Next]_vars

\* The asyncio event loop runs every callback that is ready and its clock
\* advances: a send_request whose future is done or whose deadline has passed
\* is resumed, time passes while a timer runs, and a sleep that is over
\* returns.
Fairness ==
    /\ WF_vars(Tick)
    /\ WF_vars(SleepDone)
    /\ \A c \in CallIds :
          WF_vars(CallReturn(c)) /\ WF_vars(CallTimeout(c)) /\ WF_vars(CallCancelled(c))

\* The steps explored under fairness: the same program within a smaller
\* budget of calls and transports.
FairNext == Next /\ Work' <= MaxFairWork

FairSpec == Init /\ [][FairNext]_vars /\ Fairness

\* What the event loop and the peers guarantee to a server connection: a
\* receive loop whose transport is no longer open ends, a request handler
\* that was called returns or raises, and a connection.close() awaited by
\* stop() returns.
HeartbeatFairness ==
    /\ WF_vars(StopResume)
    /\ \A k \in TransportIds :
          /\ WF_vars(ServerConnectionClosed(k))
          /\ WF_vars(\/ \E status \in {"ok", "error"} : ServerHandlerReturns(k, status)
                     \/ \E text \in HandlerErrors : ServerHandlerRaises(k, text))

HeartbeatFairSpec == Spec /\ Fairness /\ HeartbeatFairness

\* ------------------------------------------------- engines with on_event
\* The engines with an event handler that may be registered at any time.
EventNext ==
    /\ \/ Next
       \/ on_event
       \/ ClientEventHandlerDone
       \/ \E k \in TransportIds : ServerEventHandlerDone(k)
    /\ Work' <= MaxEventWork

EventSpec == Init /\ [][EventNext]_vars

\* ------------------------------------------- engines with failing handlers
\* The engines when the event handler, the on_connect handler and the
\* on_disconnect handler may raise an Exception.
\* The exceptions the tasks have caught so far.
CaughtCount ==
    Cardinality(receive_task.caught) +
    Cardinality({kh \in TransportIds \X {"on_connect", "event", "on_disconnect"} :
                    kh[2] \in conn_task[kh[1]].caught})

RaisingNext ==
    /\ \/ Next
       \/ on_event
       \/ ClientEventHandlerDone
       \/ \E k \in TransportIds : ServerEventHandlerDone(k)
       \/ \E text \in HandlerErrors : ClientEventHandlerRaises(text)
       \/ \E k \in TransportIds, text \in HandlerErrors : ServerEventHandlerRaises(k, text)
       \/ \E k \in TransportIds, text \in HandlerErrors : OnConnectRaises(k, text)
       \/ \E k \in TransportIds, text \in HandlerErrors : OnDisconnectRaises(k, text)
    /\ Work' <= MaxEventWork
    /\ CaughtCount' <= MaxCaught

RaisingSpec == Init /\ [][RaisingNext]_vars

\* ---------------------------------------- engines in every configuration
ConfigNext == Next /\ Work' <= MaxConfigWork

ConfigSpec == ConfigInit /\ [][ConfigNext]_vars

\* ------------------------------- engines whose handlers call send_request
\* The engines when the request handlers and on_connect may await a
\* send_request on the connection they are called for.
HandlerNext ==
    \/ Next
    \/ \E timeout \in Timeouts : ClientHandlerSendRequest(timeout)
    \/ \E k \in TransportIds, timeout \in Timeouts : ServerHandlerSendRequest(k, timeout)

HandlerSpec == Init /\ [][HandlerNext]_vars

\* ------------------------------------------- engines with colliding ids
\* The engines when uuid4() may return an identifier that is still pending.
DuplicateNext ==
    \/ Next
    \/ \E d \in CallIds : ClientSendRequestDuplicate(d)
    \/ \E k \in TransportIds, d \in CallIds : ServerSendRequestDuplicate(k, d)

DuplicateSpec == Init /\ [][DuplicateNext]_vars

\* ------------------------------------------------------------- the codec
\* The message model on its own: a message is constructed from arguments,
\* serialized and parsed back, or a payload a peer wrote is parsed.
CodecIds ==
    {uuid4(1), [kind |-> "str", v |-> str_uuid(1)], [kind |-> "str", v |-> alt_uuid(1)]} \cup
    { [kind |-> "str", v |-> text] : text \in PlainTexts }

\* The arguments given to the constructors.
CodecArgs ==
    [type : {"request"}, id : CodecIds, command : Commands, params : {None} \cup Dicts] \cup
    [type : {"response"}, id : CodecIds, status : {"ok", "error"},
     data : {None, "d"} \cup Dicts, error : {None, "e"}] \cup
    [type : {"event"}, id : CodecIds, name : {"ev"}, data : {None} \cup Dicts]

\* A member left out of a JSON object.
Missing == [t |-> "absent", s |-> ""]

Members == {"type", "id", "command", "status", "name", "data", "error"}

\* The JSON objects a peer can write: every member is left out, well typed
\* or mistyped.
CodecObjects ==
    [type : {Missing, JNumber, JString("request"), JString("response"), JString("event"),
             JString("unknown")},
     id : {Missing, JNumber, JString(str_uuid(1)), JString("evt-789")},
     command : {Missing, JNumber, JString("echo")},
     status : {Missing, JNumber, JString("ok"), JString("error"), JString("bad")},
     name : {Missing, JNumber, JString("ev")},
     data : {Missing, JString("d")},
     error : {Missing, JString("e")}]

\* The JSON object with the members that are not left out.
Strip(object) == [name \in {n \in Members : object[n] # Missing} |-> object[name]]

CodecTexts == {NotJson} \cup { JsonText(Strip(object)) : object \in CodecObjects }

CodecInit ==
    /\ EngineInit
    /\ engine = "client"
    /\ heartbeat_interval = DefaultHeartbeatInterval
    /\ \/ \E args \in CodecArgs : codec = [NoCodec EXCEPT !.pc = "args", !.m = args]
       \/ \E text \in CodecTexts : codec = [NoCodec EXCEPT !.pc = "text", !.text = text]

\* Request(...), Response(...), Event(...) called with the arguments.
Construct ==
    /\ codec.pc = "args"
    /\ LET args == codec.m
           built == CASE args.type = "request" -> Request(args.id, args.command, args.params)
                      [] args.type = "response" ->
                            Response(args.id, args.status, args.data, args.error)
                      [] args.type = "event" -> Event(args.id, args.name, args.data)
       IN  codec' = [codec EXCEPT
                        !.pc = IF built = ValidationError THEN "raised" ELSE "built",
                        !.m = built]
    /\ UNCHANGED engineVars

\* m.model_dump_json()
Dump ==
    /\ codec.pc = "built"
    /\ codec' = [codec EXCEPT !.pc = "dumped", !.text = model_dump_json(codec.m)]
    /\ UNCHANGED engineVars

\* parse_message(raw_data)
Parse ==
    /\ codec.pc \in {"dumped", "text"}
    /\ codec' = [codec EXCEPT !.pc = "parsed", !.parsed = parse_message(codec.text)]
    /\ UNCHANGED engineVars

CodecNext == Construct \/ Dump \/ Parse

CodecSpec == CodecInit /\ [][CodecNext]_vars

\* ------------------------------------------------------------------ claims
UsedCalls == {c \in CallIds : calls[c].pc # "unused"}

HasResponse(c) == calls[c].result.type = "response"

\* C1: a send_request call is only ever handed a Response whose id has the
\* same string form as the id of the Request that call wrote; the Response a
\* call holds carries no other call's id, and two calls never hold a Response
\* with the same id (one Response is never delivered to two calls).  This
\* covers the Response a future holds and the one the call returned.
Thm_C1 ==
    \A c \in UsedCalls :
        /\ calls[c].outcome = "response" => HasResponse(c)
        /\ calls[c].future = "result" => HasResponse(c)
        /\ HasResponse(c) =>
              /\ calls[c].result.id.v = calls[c].id.v
              /\ \A d \in UsedCalls \ {c} :
                    /\ calls[c].result.id.v # calls[d].id.v
                    /\ HasResponse(d) => calls[d].result.id.v # calls[c].result.id.v

\* Two calls were outstanding together and the peer answered the second
\* first: the second has returned its Response, the first got its own later,
\* from a peer that holds the id as a string.
Wit_C1 ==
    /\ calls[2].outcome = "response"
    /\ calls[1].pc = "waiting"
    /\ calls[1].future = "result"
    /\ calls[1].result = Received(Response_fail([kind |-> "str", v |-> str_uuid(1)], "e"))

\* The deadline the claim C2 names: the explicit timeout argument, else the
\* engine-wide request_timeout.
DeadlineOf(c) == IF calls[c].timeout = NoTimeout THEN request_timeout ELSE calls[c].timeout

Thm_C3 ==
    /\ \A id \in DOMAIN pending_requests :
          /\ pending_requests[id] \in CallIds
          /\ calls[pending_requests[id]].pc = "waiting"
          /\ calls[pending_requests[id]].id.v = id
    /\ \A c \in UsedCalls :
          calls[c].pc = "done" => calls[c].id.v \notin DOMAIN pending_requests

\* One call has returned its Response while another is still waiting: the
\* table holds the waiting call's slot only.
Wit_C3 ==
    \E c, d \in UsedCalls :
        /\ calls[c].outcome = "response"
        /\ calls[d].pc = "waiting"
        /\ DOMAIN pending_requests = {calls[d].id.v}

\* C4: every send_request call that waits for its response eventually returns
\* or raises, whatever happens to its connection meanwhile.
Thm_C4 == \A c \in CallIds : (calls[c].pc = "waiting") ~> (calls[c].pc = "done")

\* A call is waiting with its future pending on a transport that is no longer
\* open.
Wit_C4 ==
    \E c \in UsedCalls :
        /\ calls[c].pc = "waiting"
        /\ calls[c].future = "pending"
        /\ transport[calls[c].conn] # "open"

\* C5 as stated: a client send_request that is still awaiting its response
\* when its transport drops ends with a connection error (the write error or
\* the cancellation signal of a torn-down connection), never otherwise.
Orig_C5 ==
    [][\A c \in CallIds :
          (/\ engine = "client"
           /\ calls[c].pc = "waiting"
           /\ calls[c].future = "pending"
           /\ transport[calls[c].conn] = "dropped"
           /\ calls'[c].pc = "done")
              => calls'[c].outcome \in {"transport_error", "cancelled"}]_vars

\* C6 as stated, for a disconnect() during which connect() was not called
\* again: on the step on which disconnect() returns, running is false,
\* the client is not connected, no receive loop is left, no transport the
\* client opened is open, _connection is dropped, every future that was
\* pending is cancelled and the pending table is empty.
Orig_C6 ==
    [][((DisconnectBegin \/ ((DisconnectResume \/ DisconnectFinish) /\ ~running))
            /\ disconnect_task'.pc = "idle")
          => /\ ~running'
             /\ ~(connection' # NoConnection /\ connected')
             /\ connection' = NoConnection
             /\ receive_task'.state \notin {"created", "running", "inhandler"}
             /\ \A k \in TransportIds : transport'[k] # "open"
             /\ pending_requests' = EmptyTable
             /\ \A c \in CallIds : calls'[c].future # "pending"]_vars

\* C7: client send_request/send_event while the client is not connected
\* (_connection is None or _connected is clear), and server
\* send_request/send_event for a connection that is not in the registry,
\* raise ConnectionError at once, write nothing to any transport and register
\* no correlation slot: the calls, the pending table and the transports are
\* as before.
Thm_C7 ==
    [][/\ (/\ engine = "client"
           /\ (connection = NoConnection \/ ~connected)
           /\ (ClientSendEvent \/ \E t \in Timeouts : ClientSendRequest(t)))
          => /\ raised' = "ConnectionError"
             /\ wire' = <<>>
             /\ UNCHANGED <<pending_requests, calls, transport>>
       /\ \A k \in TransportIds :
            (/\ engine = "server"
             /\ k \notin connections
             /\ (ServerSendEvent(k) \/ \E t \in Timeouts : ServerSendRequest(k, t)))
            => /\ raised' = "ConnectionError"
               /\ wire' = <<>>
               /\ UNCHANGED <<pending_requests, calls, transport>>]_vars

\* The client still holds a connection object whose transport is open, but
\* its receive loop has ended (_connected is clear), and a send raised
\* ConnectionError.
Wit_C7 ==
    /\ engine = "client"
    /\ raised = "ConnectionError"
    /\ connection # NoConnection
    /\ transport[connection] = "open"
    /\ ~connected
    /\ wire = <<>>

\* An inbound Response is stale when no slot is stored under its normalized
\* id, or the future in that slot is done already.
Stale(r) ==
    \/ normalize_id(r.id) \notin DOMAIN pending_requests
    \/ calls[pending_requests[normalize_id(r.id)]].future # "pending"

\* The Responses of the peer as they reach the engine: the frame, and the
\* message decoded from it.
InboundResponses == { [raw |-> model_dump_json(r), msg |-> Received(r)] : r \in PeerResponses }

\* C8: receiving a stale Response (client and server) completes no future,
\* leaves the pending table unchanged, writes nothing to the peer and raises
\* nothing: the receive loop goes on as before.
Thm_C8 ==
    [][\A r \in InboundResponses :
          (Stale(r.msg) /\ (\/ ClientReceive(r.raw)
                            \/ \E k \in TransportIds : ServerReceive(k, r.raw)))
             => /\ UNCHANGED <<calls, pending_requests>>
                /\ wire' = <<>>
                /\ raised' = None
                /\ UNCHANGED <<receive_task, conn_task, connected, connections, transport>>]_vars

\* A call holds its Response but has not resumed yet (its slot is still in
\* the table), a second call has already timed out (its slot is gone), and a
\* receive loop is running on an open transport: a duplicate Response and a
\* late Response can both arrive.
Wit_C8 ==
    \E c, d \in UsedCalls :
        /\ calls[c].pc = "waiting"
        /\ calls[c].future = "result"
        /\ calls[c].id.v \in DOMAIN pending_requests
        /\ calls[d].outcome = "timeout"
        /\ \/ receive_task.state = "running" /\ transport[receive_task.conn] = "open"
           \/ \E k \in TransportIds : conn_task[k].state = "running" /\ transport[k] = "open"

\* The frame by which `response` reaches the peer on transport k.
Answer(k, response) == <<[conn |-> k, msg |-> response, ok |-> TRUE]>>

\* C9 as stated: the client answers every inbound Request whose command is
\* heartbeat_command, on the transport it arrived on, with a Response carrying
\* the request's id, status ok and the data "alive", with or without a
\* registered handler, and does not invoke the handler.
Orig_C9 ==
    [][\A request \in PeerRequests :
          (request.command = heartbeat_command /\ ClientReceive(model_dump_json(request)))
             => /\ wire' = Answer(receive_task.conn,
                                  Response_success(Received(request).id, "alive"))
                /\ UNCHANGED receive_task]_vars

\* C10 as stated: a non-heartbeat Request that arrives while no handler is
\* registered is answered with the error Response "No request handler
\* registered", and a Request whose handler raises is answered (the transport
\* it arrived on still being open) with an error Response carrying the
\* exception's text; client and server.
Orig_C10 ==
    [][/\ \A request \in PeerRequests :
            (request.command # heartbeat_command /\ ~request_handler) =>
               /\ ClientReceive(model_dump_json(request)) =>
                     wire' = Answer(receive_task.conn,
                                    Response_fail(Received(request).id,
                                                  "No request handler registered"))
               /\ \A k \in TransportIds : ServerReceive(k, model_dump_json(request)) =>
                     wire' = Answer(k, Response_fail(Received(request).id,
                                                     "No request handler registered"))
       /\ \A text \in HandlerErrors :
            /\ (ClientHandlerRaises(text) /\ transport[receive_task.conn] = "open") =>
                  wire' = Answer(receive_task.conn, Response_fail(receive_task.req.id, text))
            /\ \A k \in TransportIds :
                  (ServerHandlerRaises(k, text) /\ transport[k] = "open") =>
                     wire' = Answer(k, Response_fail(conn_task[k].req.id, text))]_vars

\* C11 as stated: no inbound frame ends the receive loop (client and server):
\* after it the loop is running or suspended in the request handler; a payload
\* that is not a protocol message is dropped with nothing written; a handler
\* that raises leaves the loop running.
Orig_C11 ==
    [][/\ \A raw \in PeerFrames :
            /\ ClientReceive(raw) =>
                  /\ receive_task'.state \in {"running", "inhandler"}
                  /\ parse_message(raw) = NoMessage => wire' = <<>>
            /\ \A k \in TransportIds : ServerReceive(k, raw) =>
                  /\ conn_task'[k].state \in {"running", "inhandler"}
                  /\ parse_message(raw) = NoMessage => wire' = <<>>
       /\ \A text \in HandlerErrors :
            /\ ClientHandlerRaises(text) => receive_task'.state = "running"
            /\ \A k \in TransportIds :
                  ServerHandlerRaises(k, text) => conn_task'[k].state = "running"]_vars

\* C12 as stated: with auto_reconnect and the engine running, connect() never
\* goes from an established connection whose transport has dropped straight
\* to a new connection attempt: the reconnect wait comes first.
Orig_C12 ==
    [][(/\ engine = "client"
        /\ connect_task.auto
        /\ running
        /\ connect_task.pc = "await_recv"
        /\ receive_task.state = "done"
        /\ receive_task.conn # NoConnection
        /\ transport[receive_task.conn] = "dropped")
          => connect_task'.pc # "attempt"]_vars

\* C13 as stated: with auto_reconnect=false, when the established connection
\* is lost (its receive loop has ended on a dropped transport) and connect()
\* resumes, connect() raises ConnectionError and attempts nothing more.
Orig_C13 ==
    [][(/\ ConnectResume
        /\ ~connect_task.auto
        /\ running
        /\ receive_task.state = "done"
        /\ receive_task.conn # NoConnection
        /\ transport[receive_task.conn] = "dropped")
          => connect_task'.pc = "raised"]_vars

\* C15 as stated: while running is false and no disconnect() is in progress
\* (disconnect() has completed, or connect() was never called, and connect()
\* has not been invoked since), the client is not connected and no transport
\* is open.
Orig_C15 ==
    (engine = "client" /\ ~running /\ disconnect_task.pc = "idle")
        => /\ ~(connection # NoConnection /\ connected)
           /\ \A k \in TransportIds : transport[k] # "open"

\* C14 as stated: whenever connect() has returned without raising, running
\* is false.
Orig_C14 == (engine = "client" /\ connect_task.pc = "returned") => ~running

\* The frames of `frames` written to connection k.
FramesTo(frames, k) == {i \in DOMAIN frames : frames[i].conn = k}

\* C16: broadcast_event raises nothing, whatever writes fail, and writes the
\* Event exactly once to every registered connection that is not excluded: a
\* connection whose transport is open receives it even when the write to
\* another connection fails.
Thm_C16 ==
    [][\A exclude \in SUBSET TransportIds :
          BroadcastEvent(exclude) =>
              /\ raised' = None
              /\ \A k \in connections \ exclude :
                    /\ Cardinality(FramesTo(wire', k)) = 1
                    /\ \A i \in FramesTo(wire', k) :
                          /\ wire'[i].msg.type = "event"
                          /\ wire'[i].ok = (transport[k] = "open")]_vars

\* A broadcast_event has just written to two connections: one write failed,
\* the other was delivered, and nothing was raised.
Wit_C16 ==
    /\ engine = "server"
    /\ raised = None
    /\ Len(wire) = 2
    /\ \A i \in DOMAIN wire : wire[i].msg.type = "event"
    /\ \E i, j \in DOMAIN wire : wire[i].conn # wire[j].conn /\ ~wire[i].ok /\ wire[j].ok

\* C17 as stated: a broadcast_request in progress only ever ends by returning
\* a mapping with one entry for each connection it targeted.
Orig_C17 ==
    [][(broadcast_task.pc = "gathering" /\ broadcast_task'.pc = "idle") =>
          /\ returned'.pc = "returned"
          /\ DOMAIN returned'.results = broadcast_task.targets]_vars

\* C18: a broadcast_event or broadcast_request with the exclude set `exclude`
\* writes only to connections that are registered and not excluded, the
\* mapping broadcast_request returns (at once or later) has no entry for any
\* other connection, and with an empty registry both write nothing, raise
\* nothing and broadcast_request returns the empty mapping.
Thm_C18 ==
    [][/\ \A exclude \in SUBSET TransportIds :
             (BroadcastEvent(exclude) \/ \E timeout \in BroadcastTimeouts : BroadcastRequest(timeout, exclude)) =>
                 /\ \A i \in DOMAIN wire' : wire'[i].conn \in connections \ exclude
                 /\ connections = {} => (wire' = <<>> /\ raised' = None)
       /\ \A exclude \in SUBSET TransportIds, timeout \in BroadcastTimeouts :
             BroadcastRequest(timeout, exclude) =>
                 /\ broadcast_task'.targets \subseteq connections \ exclude
                 /\ DOMAIN returned'.results \subseteq connections \ exclude
                 /\ connections = {} => (returned'.pc = "returned" /\ DOMAIN returned'.results = {})
       /\ (broadcast_task.pc = "gathering") =>
             /\ DOMAIN returned'.results \subseteq broadcast_task.targets
             /\ broadcast_task'.targets \subseteq broadcast_task.targets]_vars

\* A broadcast_request has just returned while two connections are
\* registered: the mapping has an entry for one of them only, and only that
\* one was written to.
Wit_C18 ==
    /\ engine = "server"
    /\ returned.pc = "returned"
    /\ Cardinality(connections) = 2
    /\ \E k \in connections :
          /\ DOMAIN returned.results = {k}
          /\ Len(wire) = 1
          /\ wire[1].conn = k

\* C19 as stated: when stop() returns, the registry and the pending table are
\* empty, no future is pending, the heartbeat-task table is empty and no
\* heartbeat task is still running.
Orig_C19 ==
    [][((StopBegin \/ StopResume) /\ stop_task'.pc = "idle") =>
          /\ connections' = {}
          /\ DOMAIN pending_requests' = {}
          /\ \A c \in CallIds : calls'[c].future # "pending"
          /\ \A k \in TransportIds :
                /\ ~heartbeat_tasks'[k].listed
                /\ heartbeat_tasks'[k].state \notin {"sleeping", "requesting", "closing"}]_vars

HeartbeatRunning(k) == heartbeat_tasks[k].state \in {"sleeping", "requesting", "closing"}

Orig_C21 ==
    [][\A k \in TransportIds :
          (/\ engine = "server"
           /\ heartbeat_tasks[k].state \in {"sleeping", "requesting"}
           /\ \/ \E c \in CallIds : k \in HeartbeatOwner(c) /\ CallTimeout(c)
              \/ k \in connections /\ ~Writable(k) /\ HeartbeatWake(k))
          => (heartbeat_tasks'[k].state = "closing" /\ transport'[k] # "open")]_vars

\* The connection k has been disconnected: _handle_connection has removed it
\* from the registry and has invoked on_disconnect.
Disconnected(k) ==
    /\ conn_task[k].state = "done"
    /\ k \notin connections
    /\ conn_task[k].on_disconnect = 1

\* C22 as stated: a connection whose heartbeat request has been issued is
\* eventually disconnected unless a Response to that heartbeat arrives.
Orig_C22 ==
    \A k \in TransportIds, c \in CallIds :
        (heartbeat_tasks[k].state = "requesting" /\ heartbeat_tasks[k].call = c)
            ~> (Disconnected(k) \/ calls[c].outcome = "response")

\* C23: when the heartbeat loop of a connection wakes up and the connection
\* is no longer in the registry, the loop ends on that step: no request is
\* registered or written, no transport is closed and nothing is raised.
Thm_C23 ==
    [][\A k \in TransportIds :
          (/\ engine = "server"
           /\ heartbeat_tasks[k].state = "sleeping"
           /\ k \notin connections
           /\ HeartbeatWake(k))
          => /\ heartbeat_tasks'[k].state = "done"
             /\ wire' = <<>>
             /\ calls' = calls
             /\ pending_requests' = pending_requests
             /\ transport' = transport
             /\ raised' = None]_vars

\* A heartbeat loop has ended by itself although its connection is open and
\* no request was ever made: it woke up and found the connection removed
\* from the registry.
Wit_C23 ==
    \E k \in TransportIds :
        /\ engine = "server"
        /\ heartbeat_tasks[k].state = "done"
        /\ k \notin connections
        /\ transport[k] = "open"
        /\ conn_task[k].state = "running"
        /\ \A c \in CallIds : calls[c].pc = "unused"

\* C24 as stated: while no stop() is in progress, the step on which
\* _handle_connection tears down a connection k whose transport is gone
\* cancels every future still pending for a request sent on k.
Orig_C24 ==
    [][\A k \in TransportIds :
          (/\ engine = "server"
           /\ stop_task.pc = "idle"
           /\ transport[k] # "open"
           /\ conn_task[k].state # "done"
           /\ conn_task'[k].state = "done") =>
              \A c \in CallIds :
                  (calls[c].pc = "waiting" /\ calls[c].conn = k /\ calls[c].future = "pending")
                      => calls'[c].future = "cancelled"]_vars

\* A failure on connection k of the server: its transport fails, it receives
\* a malformed or undecodable payload, the handler of one of its requests
\* raises, its heartbeat times out, or it is torn down.
FailureOn(k) ==
    /\ engine = "server"
    /\ \/ PeerClose(k)
       \/ ServerReceive(k, Garbage)
       \/ ServerReceive(k, Undecodable)
       \/ \E text \in HandlerErrors : ServerHandlerRaises(k, text)
       \/ \E c \in CallIds : k \in HeartbeatOwner(c) /\ CallTimeout(c)
       \/ HeartbeatCloseDone(k)
       \/ ServerConnectionClosed(k)

\* C25: a failure on one connection of the server changes nothing of any
\* other connection: its transport, its membership of the registry, its
\* _handle_connection task, its heartbeat task, the requests pending on it
\* and their slots stay as they were.
Thm_C25 ==
    [][\A k \in TransportIds :
          FailureOn(k) =>
              \A j \in TransportIds \ {k} :
                  /\ transport'[j] = transport[j]
                  /\ (j \in connections') = (j \in connections)
                  /\ conn_task'[j] = conn_task[j]
                  /\ heartbeat_tasks'[j] = heartbeat_tasks[j]
                  /\ \A c \in CallIds : calls[c].conn = j => calls'[c] = calls[c]
                  /\ \A id \in DOMAIN pending_requests :
                        calls[pending_requests[id]].conn = j =>
                            /\ id \in DOMAIN pending_requests'
                            /\ pending_requests'[id] = pending_requests[id]]_vars

\* The heartbeat of one connection has timed out and its loop has closed it,
\* while another connection is registered, open and has its heartbeat loop
\* running.
Wit_C25 ==
    \E k, j \in TransportIds :
        /\ k # j
        /\ engine = "server"
        /\ heartbeat_tasks[k].state = "closing"
        /\ transport[k] = "closed"
        /\ j \in connections
        /\ transport[j] = "open"
        /\ heartbeat_tasks[j].state = "sleeping"

\* C26: when a send_request that is not a heartbeat times out, it removes
\* its own slot and changes nothing else: every transport, the registry, the
\* client's connection state, the connection tasks and the heartbeat tasks
\* are as before, so that a later send on the same connection is written as
\* it would have been, and every other call and every other slot is
\* unchanged.
Thm_C26 ==
    [][\A c \in CallIds :
          (calls[c].pc = "waiting" /\ HeartbeatOwner(c) = {} /\ CallTimeout(c)) =>
              /\ transport' = transport
              /\ connections' = connections
              /\ <<connected, connection, receive_task, running>>' =
                     <<connected, connection, receive_task, running>>
              /\ conn_task' = conn_task
              /\ heartbeat_tasks' = heartbeat_tasks
              /\ \A k \in TransportIds : Writable(k)' = Writable(k)
              /\ \A d \in CallIds \ {c} : calls'[d] = calls[d]
              /\ DOMAIN pending_requests' = DOMAIN pending_requests \ {normalize_id(calls[c].id)}
              /\ \A id \in DOMAIN pending_requests' : pending_requests'[id] = pending_requests[id]]_vars

\* A send_request of the client has timed out while the client is connected
\* on an open transport and another request is still pending.
Wit_C26 ==
    \E c, d \in CallIds :
        /\ engine = "client"
        /\ calls[c].outcome = "timeout"
        /\ calls[d].pc = "waiting"
        /\ calls[d].future = "pending"
        /\ normalize_id(calls[d].id) \in DOMAIN pending_requests
        /\ is_connected
        /\ transport[connection] = "open"

\* status ok with an error, or status error with data (Python values).
Breaks(status, data, error) ==
    \/ status = "ok" /\ error # None
    \/ status = "error" /\ data # None

\* The JSON object is a response whose members break the Response invariant.
BreaksOnWire(f) ==
    /\ ~Absent(f, "type") /\ f.type = JString("response")
    /\ ~Absent(f, "status")
    /\ Breaks(f.status.s, load_any(Member(f, "data")), load_any(Member(f, "error")))

\* C27: every Response that exists has no error when its status is ok and no
\* data when its status is error: constructing a Response that breaks this
\* raises, decoding one from the wire fails, and so neither the constructors
\* nor the decoder ever yield one (only constructed messages are serialized).
Thm_C27 ==
    [][/\ (Construct /\ codec.m.type = "response"
              /\ Breaks(codec.m.status, codec.m.data, codec.m.error))
            => (codec'.pc = "raised" /\ codec'.m = ValidationError)
       /\ (Parse /\ codec.text.json = "object" /\ BreaksOnWire(codec.text.fields))
            => codec'.parsed = NoMessage
       /\ \A r \in {codec'.m, codec'.parsed} :
            r.type = "response" => ~Breaks(r.status, r.data, r.error)
       /\ Dump => codec.m.type \in {"request", "response", "event"}]_vars

\* The constructor has raised, or a response that breaks the invariant has
\* come from the wire and was refused.
Wit_C27 ==
    \/ codec.pc = "raised" /\ codec.m = ValidationError
    \/ /\ codec.pc = "parsed"
       /\ codec.text.json = "object"
       /\ BreaksOnWire(codec.text.fields)
       /\ codec.text.fields.status = JString("ok")
       /\ codec.parsed = NoMessage

\* C28 as stated: for every valid Request, Response and Event m,
\* parse_message(m.model_dump_json()) is a message of the same variant whose
\* every field, the id included, equals m's.
Orig_C28 ==
    (codec.pc = "parsed" /\ codec.m.type \in {"request", "response", "event"})
        => /\ codec.parsed.type = codec.m.type
           /\ codec.parsed = codec.m

\* The member is left out of the JSON object or is not a JSON string.
Unusable(f, name) == Absent(f, name) \/ f[name].t # "string"

Variants == {"request", "response", "event"}

\* C29: parse_message takes the variant from the member `type` alone and
\* returns no message when the payload is not valid JSON, when `type` is
\* missing or names no variant, or when a required member of that variant
\* (command; id and status; name) is missing or mistyped; a request or event
\* whose members all validate is decoded as the variant `type` names, whatever
\* members of other variants it has, and no message of another variant is
\* ever returned.
Thm_C29 ==
    codec.pc = "parsed" =>
        LET f == codec.text.fields
        IN  /\ codec.text.json # "object" => codec.parsed = NoMessage
            /\ codec.text.json = "object" =>
                  /\ (Absent(f, "type") \/ f.type \notin {JString(v) : v \in Variants})
                        => codec.parsed = NoMessage
                  /\ (~Absent(f, "type") /\ f.type = JString("request")) =>
                        (IF Unusable(f, "command") THEN codec.parsed = NoMessage
                        ELSE (Absent(f, "id") \/ f.id.t = "string")
                                => codec.parsed.type = "request")
                  /\ (/\ ~Absent(f, "type") /\ f.type = JString("response")
                      /\ (Unusable(f, "id") \/ Unusable(f, "status")))
                        => codec.parsed = NoMessage
                  /\ (~Absent(f, "type") /\ f.type = JString("event")) =>
                        (IF Unusable(f, "name") THEN codec.parsed = NoMessage
                        ELSE ((Absent(f, "id") \/ f.id.t = "string") /\ Absent(f, "data"))
                                => codec.parsed.type = "event")
                  /\ codec.parsed # NoMessage =>
                        (~Absent(f, "type") /\ f.type = JString(codec.parsed.type))

\* A payload a peer wrote has been parsed: its type is response, its status is
\* missing and it has a well-typed command, and no message came out of it.
Wit_C29 ==
    /\ codec.pc = "parsed"
    /\ codec.m = NoMessage
    /\ codec.text.json = "object"
    /\ ~Absent(codec.text.fields, "type")
    /\ codec.text.fields.type = JString("response")
    /\ Absent(codec.text.fields, "status")
    /\ ~Unusable(codec.text.fields, "command")
    /\ ~Unusable(codec.text.fields, "id")
    /\ codec.parsed = NoMessage

\* The receive loop of the client is suspended in the event handler.
ClientInEventHandler == receive_task.state = "inhandler" /\ receive_task.req.type = "event"

\* The receive loop of connection k is suspended in the event handler.
ServerInEventHandler(k) == conn_task[k].state = "inhandler" /\ conn_task[k].req.type = "event"

\* C30: an inbound Event is handed once to the registered event handler (on
\* the server for the connection it arrived on), the receive loop waiting
\* until the handler is done, or it is dropped when no handler is registered;
\* neither the arrival nor the end of the handler writes a frame, and no
\* future and no slot of the pending table changes, whatever the event's id.
Thm_C30 ==
    [][/\ \A e \in PeerEvents :
            /\ (engine = "client" /\ ClientReceive(model_dump_json(e))) =>
                  /\ wire' = <<>>
                  /\ UNCHANGED <<calls, pending_requests>>
                  /\ IF event_handler
                     THEN receive_task' = [receive_task EXCEPT !.state = "inhandler",
                                                               !.req = Received(e)]
                     ELSE UNCHANGED receive_task
            /\ \A k \in TransportIds :
                  (engine = "server" /\ ServerReceive(k, model_dump_json(e))) =>
                     /\ wire' = <<>>
                     /\ UNCHANGED <<calls, pending_requests>>
                     /\ IF event_handler
                        THEN conn_task' = [conn_task EXCEPT ![k] =
                                             [@ EXCEPT !.state = "inhandler",
                                                       !.req = Received(e)]]
                        ELSE UNCHANGED conn_task
       /\ ClientInEventHandler =>
            /\ \A i \in DOMAIN wire' : wire'[i].msg.type # "response"
            /\ ClientEventHandlerDone =>
                  /\ wire' = <<>>
                  /\ UNCHANGED <<calls, pending_requests>>
                  /\ receive_task'.state = "running"
       /\ \A k \in TransportIds : ServerInEventHandler(k) =>
            /\ \A i \in DOMAIN wire' : wire'[i].conn = k => wire'[i].msg.type # "response"
            /\ ServerEventHandlerDone(k) =>
                  /\ wire' = <<>>
                  /\ UNCHANGED <<calls, pending_requests>>
                  /\ conn_task'[k].state = "running"]_vars

\* The server's event handler is running for an event that arrived on
\* connection k and whose id is the id of a request still pending.
Wit_C30 ==
    \E k \in TransportIds :
        /\ ServerInEventHandler(k)
        /\ event_handler
        /\ normalize_id(conn_task[k].req.id) \in DOMAIN pending_requests
        /\ calls[pending_requests[normalize_id(conn_task[k].req.id)]].future = "pending"

\* C31 as stated: a send_request whose id is already pending fails with a
\* duplicate-id error at registration: the call ends at once with an error
\* raised to its caller, nothing is written, and the slot of the earlier call
\* stays what it was.
Orig_C31 ==
    [][\A c \in CallIds : \A id \in DOMAIN pending_requests :
          (/\ calls[c].pc = "unused"
           /\ calls'[c].pc # "unused"
           /\ normalize_id(calls'[c].id) = id)
             => /\ calls'[c].pc = "done"
                /\ raised' # None
                /\ wire' = <<>>
                /\ id \in DOMAIN pending_requests'
                /\ pending_requests'[id] = pending_requests[id]]_vars

\* C32: with heartbeat_interval None no connection ever gets a heartbeat
\* task or an entry in the heartbeat-task table, and no Request with the
\* heartbeat command is written to any connection.
Thm_C32 ==
    (engine = "server" /\ heartbeat_interval = None) =>
        /\ \A k \in TransportIds : heartbeat_tasks[k] = NoHeartbeat
        /\ \A i \in DOMAIN wire :
              wire[i].msg.type = "request" => wire[i].msg.command # heartbeat_command

\* With the heartbeat disabled a connection has been accepted, its on_connect
\* handler is done and its receive loop runs.
Wit_C32 ==
    /\ engine = "server"
    /\ heartbeat_interval = None
    /\ \E k \in connections : conn_task[k].state = "running" /\ transport[k] = "open"

\* C33 as stated: the server answers every inbound Request whose command is
\* heartbeat_command as the client does: on the connection it arrived on, with
\* a Response carrying the request's id, status ok and the data "alive",
\* with or without a registered request handler, and without invoking the
\* handler.
Orig_C33 ==
    [][\A request \in PeerRequests : \A k \in TransportIds :
          (/\ engine = "server"
           /\ request.command = heartbeat_command
           /\ ServerReceive(k, model_dump_json(request)))
             => /\ wire' = Answer(k, Response_success(Received(request).id, "alive"))
                /\ UNCHANGED conn_task]_vars

\* The Responses among the frames handed to connection k.
ResponsesTo(frames, k) ==
    { frames[i].msg : i \in {j \in DOMAIN frames : frames[j].conn = k
                                                    /\ frames[j].msg.type = "response"} }

\* C34: the messages of one connection are dispatched one at a time and in
\* the order of their arrival: while a handler is busy with a message the
\* receive loop of that connection takes no other message, every Response
\* written to the connection meanwhile answers that message, and a dispatch
\* that needs no handler writes its reply on the step the message arrives; so
\* the replies go out in the order the requests came in.
Thm_C34 ==
    [][/\ receive_task.state = "inhandler" =>
            /\ receive_task'.req \in {receive_task.req, NoMessage}
            /\ \A r \in ResponsesTo(wire', receive_task.conn) : r.id = receive_task.req.id
       /\ \A k \in TransportIds :
            /\ conn_task[k].state = "inhandler" =>
                  /\ conn_task'[k].req \in {conn_task[k].req, NoMessage}
                  /\ \A r \in ResponsesTo(wire', k) : r.id = conn_task[k].req.id
            /\ (conn_task[k].state = "running" /\ ResponsesTo(wire', k) # {}) =>
                  \E raw \in PeerFrames :
                     /\ ServerReceive(k, raw)
                     /\ \A r \in ResponsesTo(wire', k) : r.id = Decoded[raw].id
       /\ (receive_task.state = "running" /\ ResponsesTo(wire', receive_task.conn) # {}) =>
            \E raw \in PeerFrames :
               /\ ClientReceive(raw)
               /\ \A r \in ResponsesTo(wire', receive_task.conn) : r.id = Decoded[raw].id]_vars

\* The handler has just returned and its Response has been written to the
\* peer of connection k, whose receive loop goes on.
Wit_C34 ==
    \E k \in TransportIds :
        /\ engine = "server"
        /\ conn_task[k].state = "running"
        /\ ResponsesTo(wire, k) = {Response_success([kind |-> "uuid", v |-> str_uuid(1)], "d")}
        /\ Delivered(wire)

\* C36: a request the server sent to connection A is resolved only by a
\* Response received on connection A: whenever the future of a pending
\* send_request gets its result, the step is the receive loop of the
\* request's own connection taking a frame.
Orig_C36 ==
    [][\A c \in CallIds :
          (/\ engine = "server"
           /\ calls[c].pc = "waiting" /\ calls[c].future = "pending"
           /\ calls'[c].future = "result")
             => \E raw \in PeerFrames : ServerReceive(calls[c].conn, raw)]_vars

\* Call c is a send_request that a handler (request handler or on_connect)
\* awaits on the connection whose task is awaiting that handler.
AwaitedByHandler(c) ==
    /\ calls[c].pc = "waiting" /\ calls[c].by = "handler"
    /\ IF engine = "client"
       THEN receive_task.state = "inhandler" /\ receive_task.conn = calls[c].conn
       ELSE conn_task[calls[c].conn].state \in {"on_connect", "inhandler"}

\* The task of the connection of call c stays suspended in the handler: it
\* takes no message, or it is cancelled.
StaysInHandler(c) ==
    IF engine = "client"
    THEN receive_task' = receive_task \/ receive_task'.state = "cancelled"
    ELSE conn_task'[calls[c].conn] = conn_task[calls[c].conn]

\* C35 as stated: while a handler awaits a send_request on its own
\* connection, no message of that connection is processed, the call is never
\* resolved, and it ends with TimeoutError.
Orig_C35 ==
    [][\A c \in CallIds :
          AwaitedByHandler(c) =>
             /\ StaysInHandler(c)
             /\ calls[c].future = "pending" => calls'[c].future # "result"
             /\ calls'[c].pc = "done" => calls'[c].outcome = "timeout"]_vars

\* C35: while a handler awaits a send_request on its own connection, no
\* message of that connection is processed and no Response received on that
\* connection resolves the call; the call ends with TimeoutError unless
\* disconnect() or stop() cancels it first or, on the server, a Response with
\* its id is received on another connection.
Thm_C35 ==
    [][\A c \in CallIds :
          AwaitedByHandler(c) =>
             /\ StaysInHandler(c)
             /\ (calls[c].future = "pending" /\ calls'[c].future = "result") =>
                   /\ engine = "server"
                   /\ \E j \in TransportIds \ {calls[c].conn} : \E raw \in PeerFrames :
                         ServerReceive(j, raw)
             /\ calls'[c].pc = "done" =>
                   \/ calls'[c].outcome = "timeout"
                   \/ calls'[c].outcome = "cancelled" /\ calls[c].future = "cancelled"
                   \/ calls'[c].outcome = "response" /\ calls[c].future = "result"]_vars

\* The send_request the request handler of connection k awaited has ended
\* with TimeoutError, the handler has not returned yet, and the connection,
\* the only one of the server, is still open.
Wit_C35 ==
    \E k \in TransportIds : \E c \in CallIds :
        /\ engine = "server"
        /\ conn_task[k].state = "inhandler"
        /\ transport[k] = "open"
        /\ calls[c].pc = "done" /\ calls[c].by = "handler" /\ calls[c].outcome = "timeout"
        /\ \A j \in TransportIds \ {k} : transport[j] = "unused"
        /\ \A d \in CallIds \ {c} : calls[d].pc = "unused"

\* The Response frames among the frames written on a step, in writing order.
ResponseFrames(frames) == SelectSeq(frames, LAMBDA f : f.msg.type = "response")

\* The Response frames that reached the peer.
Replies(frames) == SelectSeq(ResponseFrames(frames), LAMBDA f : f.ok)

\* Frame f answers a Request that arrived on connection f.conn and whose
\* dispatch acts on this step: the Request a handler was busy with, or the
\* Request the receive loop of that connection takes on this step.
AnswersItsRequest(f) ==
    IF engine = "client"
    THEN /\ f.conn = receive_task.conn
         /\ \/ /\ receive_task.state = "inhandler" /\ receive_task.req.type = "request"
               /\ f.msg.id = receive_task.req.id
            \/ \E raw \in PeerFrames :
                  /\ Decoded[raw].type = "request" /\ f.msg.id = Decoded[raw].id
                  /\ ClientReceive(raw)
    ELSE LET k == f.conn
         IN  /\ k \in TransportIds
             /\ \/ /\ conn_task[k].state = "inhandler" /\ conn_task[k].req.type = "request"
                   /\ f.msg.id = conn_task[k].req.id
                \/ \E raw \in PeerFrames :
                      /\ Decoded[raw].type = "request" /\ f.msg.id = Decoded[raw].id
                      /\ ServerReceive(k, raw)

\* The dispatch of a Request of connection k comes to its end on this step.
DispatchEnds(k) ==
    /\ IF engine = "client"
       THEN /\ k = receive_task.conn
            /\ \/ /\ receive_task.state = "inhandler" /\ receive_task.req.type = "request"
                  /\ receive_task'.state = "running"
               \/ \E raw \in PeerFrames :
                     /\ Decoded[raw].type = "request"
                     /\ ClientReceive(raw) /\ receive_task'.state = "running"
       ELSE \/ /\ conn_task[k].state = "inhandler" /\ conn_task[k].req.type = "request"
               /\ conn_task'[k].state = "running"
            \/ \E raw \in PeerFrames :
                  /\ Decoded[raw].type = "request"
                  /\ ServerReceive(k, raw) /\ conn_task'[k].state = "running"

\* C37: the dispatch of an inbound Request writes at most one Response that
\* reaches the peer; a dispatch that comes to its end has attempted a write,
\* and when that write succeeded exactly one Response reached the peer and
\* nothing was written after it; every Response handed to a transport goes to
\* the connection the Request arrived on and carries its id; after a failed
\* write of the handler's Response at most one error Response is attempted,
\* and it does not reach the peer either.
Thm_C37 ==
    [][/\ Len(ResponseFrames(wire')) <= 2
       /\ Len(Replies(wire')) <= 1
       /\ \A i \in DOMAIN ResponseFrames(wire') :
             ResponseFrames(wire')[i].conn # NoConnection =>
                AnswersItsRequest(ResponseFrames(wire')[i])
       /\ Len(ResponseFrames(wire')) = 2 =>
             /\ ~ResponseFrames(wire')[1].ok /\ ~ResponseFrames(wire')[2].ok
             /\ ResponseFrames(wire')[1].conn = ResponseFrames(wire')[2].conn
             /\ ResponseFrames(wire')[2].msg.status = "error"
       /\ \A k \in TransportIds :
             DispatchEnds(k) =>
                /\ Len(ResponseFrames(wire')) >= 1
                /\ ResponseFrames(wire')[1].ok =>
                      Len(Replies(wire')) = 1 /\ Len(ResponseFrames(wire')) = 1]_vars

\* The handler's Response could not be written to the closed transport and
\* the error Response attempted after it could not either.
Wit_C37 ==
    /\ Len(ResponseFrames(wire)) = 2
    /\ Replies(wire) = <<>>
    /\ ResponseFrames(wire)[1].msg.status = "ok"
    /\ ResponseFrames(wire)[2].msg.status = "error"

\* C38: stop() closes every connection it removes from the registry: when
\* stop() clears the registry, a connection that was accepted while stop() was
\* suspended in a close() (it is registered and its transport is still open)
\* is not dropped unclosed, and it is not left with an entry in the
\* heartbeat-task table while absent from the registry.
Orig_C38 ==
    [][(engine = "server" /\ stop_task.pc = "closing" /\ stop_task'.pc = "idle") =>
          \A k \in TransportIds :
             (k \in connections /\ transport[k] = "open") =>
                /\ k \notin connections' => transport'[k] # "open"
                /\ heartbeat_tasks'[k].listed => k \in connections']_vars

\* C39: the heartbeat loop closes a connection only after a heartbeat request
\* that timed out.  When the heartbeat request of connection k returns a
\* Response, whatever its status, the loop goes back to sleep for the next
\* probe, and the step closes no transport and drops nothing from the
\* registry; and whenever the loop turns to closing its connection, its
\* heartbeat request has just ended with TimeoutError.
Thm_C39 ==
    [][\A k \in TransportIds :
          /\ (/\ heartbeat_tasks[k].state = "requesting"
              /\ calls[heartbeat_tasks[k].call].future = "result"
              /\ calls'[heartbeat_tasks[k].call].pc = "done")
                => /\ calls'[heartbeat_tasks[k].call].outcome = "response"
                   /\ heartbeat_tasks'[k] = [heartbeat_tasks[k] EXCEPT !.state = "sleeping",
                                                                       !.call = NoCall]
                   /\ transport' = transport
                   /\ connections' = connections
          /\ (heartbeat_tasks[k].state # "closing" /\ heartbeat_tasks'[k].state = "closing")
                => /\ heartbeat_tasks[k].state = "requesting"
                   /\ calls'[heartbeat_tasks[k].call].outcome = "timeout"
          /\ (/\ heartbeat_tasks[k].state = "requesting"
              /\ calls[heartbeat_tasks[k].call].pc = "waiting"
              /\ calls'[heartbeat_tasks[k].call].pc = "done"
              /\ transport[k] = "open" /\ transport'[k] # "open")
                => calls'[heartbeat_tasks[k].call].outcome = "timeout"]_vars

\* The peer of connection k has answered the heartbeat with status error: the
\* loop sleeps until the next probe, the connection is registered and open.
Wit_C39 ==
    \E k \in connections : \E c \in CallIds :
        /\ engine = "server"
        /\ calls[c].pc = "done" /\ calls[c].by = "heartbeat"
        /\ calls[c].outcome = "response" /\ calls[c].result.status = "error"
        /\ heartbeat_tasks[k].state = "sleeping" /\ heartbeat_tasks[k].listed
        /\ transport[k] = "open"
        /\ conn_task[k].state = "running"
        /\ \A j \in TransportIds \ {k} : transport[j] = "unused"

\* The exceptions the task of connection k catches on a step.
NewlyCaught(k) == conn_task'[k].caught \ conn_task[k].caught

\* C40: an Exception raised by the event handler, the on_connect handler or
\* the on_disconnect handler is caught: on the step nothing is written and
\* nothing is raised; after a failing event handler the receive loop is ready
\* for the next message with the connection as it was; after a failing
\* on_connect the receive loop starts and the heartbeat task is in the table;
\* after a failing on_disconnect the connection is out of the registry.
Thm_C40 ==
    [][/\ \A k \in TransportIds :
             NewlyCaught(k) # {} =>
                /\ wire' = <<>> /\ raised' = None
                /\ transport' = transport
                /\ "event" \in NewlyCaught(k) =>
                      /\ conn_task'[k].state = "running"
                      /\ connections' = connections
                      /\ heartbeat_tasks' = heartbeat_tasks
                /\ "on_connect" \in NewlyCaught(k) =>
                      /\ conn_task'[k].state = "running"
                      /\ connections' = connections
                      /\ heartbeat_tasks'[k].listed /\ heartbeat_tasks'[k].state = "sleeping"
                /\ "on_disconnect" \in NewlyCaught(k) =>
                      /\ k \notin connections'
                      /\ ~heartbeat_tasks'[k].listed
       /\ receive_task'.caught \ receive_task.caught # {} =>
             /\ wire' = <<>> /\ raised' = None
             /\ receive_task'.state = "running"
             /\ receive_task'.conn = receive_task.conn
             /\ <<transport, connected, connection>>' = <<transport, connected, connection>>]_vars

\* The on_connect handler of connection k has raised, and the receive loop
\* has since started and taken a message: the event handler is busy with it,
\* the heartbeat task is in the table, the connection is registered and open.
Wit_C40 ==
    \E k \in connections :
        /\ engine = "server"
        /\ conn_task[k].caught = {"on_connect"}
        /\ conn_task[k].state = "inhandler"
        /\ heartbeat_tasks[k].listed
        /\ transport[k] = "open"
====
